---- MODULE Spec2Model ----
(***************************************************************************)
(* Order-fulfilment saga of the order service: OrderService.create_order   *)
(* and OrderService.cancel_order (orders/services.py) calling the four     *)
(* collaborators through ServiceWrapper._call_with_fallback                *)
(* (orders/service_wrapper.py), with the networked clients of              *)
(* orders/service_clients.py as the preferred implementations and the      *)
(* CSV-backed mock services of orders/services.py as the fallbacks.        *)
(*                                                                         *)
(* Money is counted in cents.  One invocation runs at a time; its local    *)
(* variables and the rows it has written inside its database transaction   *)
(* are the frame `cur`; the rows are committed to `orders`/`order_items`   *)
(* when the invocation returns normally.                                   *)
(***************************************************************************)
EXTENDS Integers, Sequences, FiniteSets, TLC

----------------------------------------------------------------------------
(* Bounds of the model *)

\* longest items_data list passed to create_order
MaxItems == 2

----------------------------------------------------------------------------
(* Values *)

\* Python None
None == [none |-> TRUE]

\* idempotency_key=None
NoKey == "<None>"
Keys == {NoKey, "", "K1"}

\* shipping=Decimal('10.00')
DefaultShipping == 1000

\* str(uuid.uuid4()) passed to charge when the caller gave no usable key
FreshKey == "<uuid4>"

CustomerIds == {1, 2}

\* the identifiers new orders get
OrderIds == {1}
ProductIds == {1, 2, 3}

\* the (product_id, quantity) pairs requests are built from
ItemChoices ==
    { [product_id |-> 1, quantity |-> 1],
      [product_id |-> 1, quantity |-> 2],
      [product_id |-> 2, quantity |-> 1],
      [product_id |-> 3, quantity |-> 1] }

ItemLists == UNION { [1..n -> ItemChoices] : n \in 1..MaxItems }

\* truthiness of an idempotency key: None and '' are falsy
Truthy(key) == key # NoKey /\ key # ""

----------------------------------------------------------------------------
(* Errors and call outcomes *)

NoErr == [cls |-> "", msg |-> "", detail |-> "", real |-> "", mock |-> ""]

Err(cls, msg, detail) ==
    [cls |-> cls, msg |-> msg, detail |-> detail, real |-> "", mock |-> ""]

\* what a call gives back: a value, or a raised exception
Ok(v) == [ok |-> TRUE, val |-> v, err |-> NoErr]
Raise(e) == [ok |-> FALSE, val |-> None, err |-> e]

\* ServiceUnavailableError raised by every networked client method
ServiceUnavailableError(msg) == Err("ServiceUnavailableError", msg, "")

\* an exception of a mock service (malformed seed data)
MockDataError == Err("KeyError", "seed data", "")

----------------------------------------------------------------------------
(* Seed data of the mock services and data of the networked services *)

MockCUSTOMERS ==
    (1 :> [customer_id |-> 1, name |-> "Ann", email |-> "ann@example.com"])

RealCUSTOMERS ==
    (1 :> [customer_id |-> 1, name |-> "Ann", email |-> "ann@example.com"])

MockPRODUCTS ==
    (1 :> [product_id |-> 1, sku |-> "SKU1", name |-> "P1", price |-> 999,
           is_active |-> TRUE]) @@
    (2 :> [product_id |-> 2, sku |-> "SKU2", name |-> "P2", price |-> 500,
           is_active |-> FALSE])

RealPRODUCTS ==
    (1 :> [product_id |-> 1, sku |-> "SKU1", name |-> "P1", price |-> 1099,
           is_active |-> TRUE]) @@
    (2 :> [product_id |-> 2, sku |-> "SKU2", name |-> "P2", price |-> 500,
           is_active |-> FALSE])

\* the stock rows of the networked inventory service
RealINVENTORY ==
    << [product_id |-> 1, warehouse |-> "RW", on_hand |-> 2, reserved |-> 0] >>

\* MockInventoryService.INVENTORY in insertion order; never modified
MockINVENTORY ==
    << [product_id |-> 1, warehouse |-> "W1", on_hand |-> 2, reserved |-> 2],
       [product_id |-> 1, warehouse |-> "W2", on_hand |-> 5, reserved |-> 4],
       [product_id |-> 2, warehouse |-> "W1", on_hand |-> 5, reserved |-> 0] >>

----------------------------------------------------------------------------
(* Mock services *)

MockCustomerService_get_customer(customer_id) ==
    IF customer_id \in DOMAIN MockCUSTOMERS THEN MockCUSTOMERS[customer_id] ELSE None

MockCatalogService_get_product(product_id) ==
    IF product_id \in DOMAIN MockPRODUCTS THEN MockPRODUCTS[product_id] ELSE None

\* (available, warehouse) of the first warehouse that has the quantity
MockInventoryService_check_availability(product_id, quantity) ==
    LET hits == { i \in 1..Len(MockINVENTORY) :
                    /\ MockINVENTORY[i].product_id = product_id
                    /\ MockINVENTORY[i].on_hand - MockINVENTORY[i].reserved >= quantity }
    IN  IF hits = {}
        THEN [available |-> FALSE, warehouse |-> "None"]
        ELSE [available |-> TRUE,
              warehouse |-> MockINVENTORY[CHOOSE i \in hits : \A j \in hits : i <= j].warehouse]

MockInventoryService_reserve_stock(product_id, sku, quantity, fresh_id) ==
    LET a == MockInventoryService_check_availability(product_id, quantity)
    IN  IF a.available
        THEN [success |-> TRUE, reservation_id |-> fresh_id,
              warehouse |-> a.warehouse, quantity |-> quantity, error |-> ""]
        ELSE [success |-> FALSE, reservation_id |-> None,
              warehouse |-> "None", quantity |-> 0, error |-> "Insufficient stock for product"]

MockInventoryService_release_reservation(reservation_id) ==
    [success |-> TRUE, released |-> reservation_id]

MockPaymentService_charge(order_id, amount, idempotency_key, fresh_id) ==
    [success |-> TRUE, payment_id |-> fresh_id, amount |-> amount,
     status |-> "PAID", error |-> ""]

MockPaymentService_refund(payment_id, amount, fresh_id) ==
    [success |-> TRUE, refund_id |-> fresh_id, amount |-> amount,
     status |-> "REFUNDED", error |-> ""]

----------------------------------------------------------------------------
(* ServiceWrapper *)

NotCalled == [called |-> FALSE, times |-> 0]
Called(args, out) == [called |-> TRUE, times |-> 1, args |-> args, out |-> out]

\* a variant of the combined exception that keeps only the real service's cause
BothFailed_RealCauseOnly(service_name, e, mock_error) ==
    [cls |-> "Exception", msg |-> "unavailable", detail |-> service_name,
     real |-> e.msg, mock |-> ""]

\* the exception raised when both implementations failed
BothFailed(service_name, e, mock_error) ==
    [cls |-> "Exception", msg |-> "unavailable", detail |-> service_name,
     real |-> e.msg, mock |-> mock_error.msg]

\* a variant of the wrapper that tries the real service first whatever
\* use_real_services says
_call_with_fallback_RealFirst(w, method_name, args, realOut, mockOut) ==
    LET rec(real, mock, ret) ==
            [service |-> w.service_name, method |-> method_name, args |-> args,
             real |-> real, mock |-> mock, ret |-> ret]
    IN  IF realOut.ok
        THEN rec(Called(args, realOut), NotCalled, realOut)
        ELSE IF ~w.enable_fallback
        THEN rec(Called(args, realOut), NotCalled, realOut)
        ELSE IF mockOut.ok
        THEN rec(Called(args, realOut), Called(args, mockOut), mockOut)
        ELSE rec(Called(args, realOut), Called(args, mockOut),
                 Raise(BothFailed(w.service_name, realOut.err, mockOut.err)))

\* a variant of the wrapper that tries the real service a second time before
\* it gives up on it
_call_with_fallback_RetriesReal(w, method_name, args, realOut, mockOut) ==
    LET rec(real, mock, ret) ==
            [service |-> w.service_name, method |-> method_name, args |-> args,
             real |-> real, mock |-> mock, ret |-> ret]
        retried == [Called(args, realOut) EXCEPT !.times = 2]
    IN  IF ~w.use_real_services
        THEN rec(NotCalled, Called(args, mockOut), mockOut)
        ELSE IF realOut.ok
        THEN rec(Called(args, realOut), NotCalled, realOut)
        ELSE IF ~w.enable_fallback
        THEN rec(retried, NotCalled, realOut)
        ELSE IF mockOut.ok
        THEN rec(retried, Called(args, mockOut), mockOut)
        ELSE rec(retried, Called(args, mockOut),
                 Raise(BothFailed(w.service_name, realOut.err, mockOut.err)))

\* a variant of the wrapper that never falls back to the mock
_call_with_fallback_NeverFallBack(w, method_name, args, realOut, mockOut) ==
    LET rec(real, mock, ret) ==
            [service |-> w.service_name, method |-> method_name, args |-> args,
             real |-> real, mock |-> mock, ret |-> ret]
    IN  IF ~w.use_real_services
        THEN rec(NotCalled, Called(args, mockOut), mockOut)
        ELSE rec(Called(args, realOut), NotCalled, realOut)

\* a variant of the wrapper that falls back whatever enable_fallback says
_call_with_fallback_AlwaysFallBack(w, method_name, args, realOut, mockOut) ==
    LET rec(real, mock, ret) ==
            [service |-> w.service_name, method |-> method_name, args |-> args,
             real |-> real, mock |-> mock, ret |-> ret]
    IN  IF ~w.use_real_services
        THEN rec(NotCalled, Called(args, mockOut), mockOut)
        ELSE IF realOut.ok
        THEN rec(Called(args, realOut), NotCalled, realOut)
        ELSE IF mockOut.ok
        THEN rec(Called(args, realOut), Called(args, mockOut), mockOut)
        ELSE rec(Called(args, realOut), Called(args, mockOut),
                 Raise(BothFailed(w.service_name, realOut.err, mockOut.err)))

\* a variant of the wrapper that raises its own "unavailable" exception when
\* fallback is disabled, instead of re-raising the real service's
_call_with_fallback_WrapsRealError(w, method_name, args, realOut, mockOut) ==
    LET rec(real, mock, ret) ==
            [service |-> w.service_name, method |-> method_name, args |-> args,
             real |-> real, mock |-> mock, ret |-> ret]
    IN  IF ~w.use_real_services
        THEN rec(NotCalled, Called(args, mockOut), mockOut)
        ELSE IF realOut.ok
        THEN rec(Called(args, realOut), NotCalled, realOut)
        ELSE IF ~w.enable_fallback
        THEN rec(Called(args, realOut), NotCalled,
                 Raise(BothFailed(w.service_name, realOut.err, NoErr)))
        ELSE IF mockOut.ok
        THEN rec(Called(args, realOut), Called(args, mockOut), mockOut)
        ELSE rec(Called(args, realOut), Called(args, mockOut),
                 Raise(BothFailed(w.service_name, realOut.err, mockOut.err)))

\* a variant of the wrapper that calls the mock after a failure of the real
\* service but still raises the real service's exception
_call_with_fallback_FallbackResultLost(w, method_name, args, realOut, mockOut) ==
    LET rec(real, mock, ret) ==
            [service |-> w.service_name, method |-> method_name, args |-> args,
             real |-> real, mock |-> mock, ret |-> ret]
    IN  IF ~w.use_real_services
        THEN rec(NotCalled, Called(args, mockOut), mockOut)
        ELSE IF realOut.ok
        THEN rec(Called(args, realOut), NotCalled, realOut)
        ELSE IF ~w.enable_fallback
        THEN rec(Called(args, realOut), NotCalled, realOut)
        ELSE IF mockOut.ok
        THEN rec(Called(args, realOut), Called(args, mockOut), realOut)
        ELSE rec(Called(args, realOut), Called(args, mockOut),
                 Raise(BothFailed(w.service_name, realOut.err, mockOut.err)))

\* One call through the wrapper w.  realOut / mockOut: what the real and the
\* mock implementation give back if they are called with args.
\* The result records which implementation was called, with what, and what
\* the caller gets (ret).
_call_with_fallback(w, method_name, args, realOut, mockOut) ==
    LET rec(real, mock, ret) ==
            [service |-> w.service_name, method |-> method_name, args |-> args,
             real |-> real, mock |-> mock, ret |-> ret]
    IN  IF ~w.use_real_services
        THEN rec(NotCalled, Called(args, mockOut), mockOut)
        ELSE IF realOut.ok
        THEN rec(Called(args, realOut), NotCalled, realOut)
        ELSE IF ~w.enable_fallback
        THEN rec(Called(args, realOut), NotCalled, realOut)
        ELSE IF mockOut.ok
        THEN rec(Called(args, realOut), Called(args, mockOut), mockOut)
        ELSE rec(Called(args, realOut), Called(args, mockOut),
                 Raise(BothFailed(w.service_name, realOut.err, mockOut.err)))

\* ServiceWrapper.__init__: the two flags are read from the settings
ServiceWrapper(service_name, settings) ==
    [kind |-> "wrapper", service_name |-> service_name,
     use_real_services |-> settings.USE_REAL_SERVICES,
     enable_fallback |-> settings.ENABLE_SERVICE_FALLBACK]

\* the mock class used directly (get_*_service when the clients cannot be imported)
MockOnly(service_name) ==
    [kind |-> "mock", service_name |-> service_name,
     use_real_services |-> FALSE, enable_fallback |-> FALSE]

\* a method call on a service handle
Invoke(svc, method_name, args, realOut, mockOut) ==
    IF svc.kind = "wrapper"
    THEN _call_with_fallback(svc, method_name, args, realOut, mockOut)
    ELSE [service |-> svc.service_name, method |-> method_name, args |-> args,
          real |-> NotCalled, mock |-> Called(args, mockOut), ret |-> mockOut]

\* OrderService.CustomerService .. PaymentService
Services(settings) ==
    [CustomerService |-> ServiceWrapper("CustomerService", settings),
     CatalogService |-> ServiceWrapper("CatalogService", settings),
     InventoryService |-> ServiceWrapper("InventoryService", settings),
     PaymentService |-> ServiceWrapper("PaymentService", settings)]

\* the same services with the mock catalog as the only catalog implementation
ServicesMockCatalog(settings) ==
    [Services(settings) EXCEPT !.CatalogService = MockOnly("CatalogService")]

----------------------------------------------------------------------------
(* Networked services: what a call to them can give back *)

\* reservation and payment identifiers: [impl, n]
Ident(impl, n) == [impl |-> impl, n |-> n]

\* the units of a product held in reservations
HeldQty(held, product_id) ==
    LET RECURSIVE Sum(_)
        Sum(S) == IF S = {} THEN 0
                  ELSE LET h == CHOOSE h \in S : TRUE IN h.quantity + Sum(S \ {h})
    IN  Sum({ h \in held : h.product_id = product_id })

\* the warehouses of the networked service that still have the quantity free
RealAvailable(held, product_id, quantity) ==
    { i \in 1..Len(RealINVENTORY) :
        /\ RealINVENTORY[i].product_id = product_id
        /\ RealINVENTORY[i].on_hand - RealINVENTORY[i].reserved
             - HeldQty(held, product_id) >= quantity }

RealCustomerService_get_customer(customer_id) ==
    { Raise(ServiceUnavailableError("Customer service unavailable")) } \cup
    ( IF customer_id \in DOMAIN RealCUSTOMERS
      THEN { Ok(RealCUSTOMERS[customer_id]) } ELSE {} )

RealCatalogService_get_product(product_id) ==
    { Raise(ServiceUnavailableError("Catalog service unavailable")) } \cup
    ( IF product_id \in DOMAIN RealPRODUCTS
      THEN { Ok(RealPRODUCTS[product_id]) } ELSE {} )

\* held: the reservations the inventory service holds; a reservation is
\* granted only while the stock covers it
RealInventoryService_reserve_stock(product_id, sku, quantity, fresh_id, held) ==
    { Raise(ServiceUnavailableError("Inventory service unavailable")),
      Ok([success |-> FALSE, reservation_id |-> None, warehouse |-> "None",
          quantity |-> 0, error |-> "out of stock"]) } \cup
    { Ok([success |-> TRUE, reservation_id |-> fresh_id,
          warehouse |-> RealINVENTORY[i].warehouse, quantity |-> quantity,
          error |-> ""]) : i \in RealAvailable(held, product_id, quantity) }

RealInventoryService_release_reservation(reservation_id) ==
    { Raise(ServiceUnavailableError("Inventory service unavailable")),
      Ok([success |-> TRUE, released |-> reservation_id]) }

RealPaymentService_charge(order_id, amount, idempotency_key, fresh_id) ==
    { Raise(ServiceUnavailableError("Payment service unavailable")),
      Ok([success |-> FALSE, payment_id |-> None, amount |-> amount,
          status |-> "FAILED", error |-> "declined"]),
      Ok([success |-> TRUE, payment_id |-> fresh_id, amount |-> amount,
          status |-> "PAID", error |-> ""]) }

RealPaymentService_refund(payment_id, amount, fresh_id) ==
    { Raise(ServiceUnavailableError("Payment service unavailable")),
      Ok([success |-> FALSE, refund_id |-> None, amount |-> amount,
          status |-> "FAILED", error |-> "refused"]),
      Ok([success |-> TRUE, refund_id |-> fresh_id, amount |-> amount,
          status |-> "REFUNDED", error |-> ""]) }

\* what a mock method can give back: its value, or an exception on bad seed data
MockOutcomes(value) == { Ok(value), Raise(MockDataError) }

----------------------------------------------------------------------------
(* Order and OrderItem rows *)

\* Order.objects.create(...) of create_order: the shell row
NewOrder(order_id, customer_id, customer_info, idempotency_key, shipping) ==
    [order_id |-> order_id, customer_id |-> customer_id,
     customer_name |-> customer_info.name, customer_email |-> customer_info.email,
     idempotency_key |-> idempotency_key, shipping |-> shipping,
     subtotal |-> 0, tax |-> 0, order_total |-> 0,
     order_status |-> "PENDING", payment_status |-> "UNPAID"]

\* OrderItem.calculate_line_total
calculate_line_total(item) ==
    [item EXCEPT !.line_total = item.quantity * item.unit_price]

\* OrderItem.objects.create(...) followed by calculate_line_total() and save()
NewOrderItem(product, quantity, reservation) ==
    calculate_line_total(
        [product_id |-> product.product_id, sku |-> product.sku,
         product_name |-> product.name, quantity |-> quantity,
         unit_price |-> product.price, line_total |-> 0,
         reservation_id |-> reservation.reservation_id,
         warehouse |-> reservation.warehouse])

SumLineTotals(items) ==
    LET RECURSIVE Sum(_)
        Sum(i) == IF i = 0 THEN 0 ELSE items[i].line_total + Sum(i - 1)
    IN  Sum(Len(items))

\* Order.calculate_totals: the items' line totals plus shipping, no tax
calculate_totals(order, items) ==
    [order EXCEPT !.subtotal = SumLineTotals(items),
                  !.tax = 0,
                  !.order_total = SumLineTotals(items) + order.shipping]

\* the unique index on Order.idempotency_key (NULLs do not collide)
UniqueKeyViolation(store, idempotency_key) ==
    /\ idempotency_key # NoKey
    /\ \E id \in DOMAIN store : store[id].idempotency_key = idempotency_key

\* a new order identifier
NewOrderId(store) ==
    CHOOSE n \in OrderIds \ DOMAIN store : \A m \in OrderIds \ DOMAIN store : n <= m

----------------------------------------------------------------------------
(* One invocation of create_order or cancel_order: its local variables and  *)
(* the rows of its open transaction                                         *)

NoFrame ==
    [pc |-> "idle", op |-> "none", customer_id |-> 0, items_data |-> << >>,
     idempotency_key |-> NoKey, shipping |-> 0, order |-> None, items |-> << >>,
     reservations |-> << >>, idx |-> 0, product |-> None, exc |-> NoErr,
     result |-> None, log |-> << >>, last |-> None]

\* the invocation after a call through a service handle: the call is the
\* last one made, and the log keeps what the invocation asked and got
Logged(f, call) ==
    [f EXCEPT !.last = call,
              !.log = Append(f.log, [service |-> call.service, method |-> call.method,
                                     args |-> call.args, ret |-> call.ret])]

\* raise e out of the invocation
Raised(f, e) == [f EXCEPT !.pc = "raised", !.exc = e]

\* an exception caught by `except Exception as e` of create_order: release
\* the recorded reservations, then delete the order
Caught(f, e) ==
    [f EXCEPT !.pc = IF Len(f.reservations) = 0 THEN "delete" ELSE "release",
              !.idx = 1, !.exc = e]

\* create_order, the idempotency check
create_order_check(store, customer_id, items_data, idempotency_key, shipping) ==
    LET f == [NoFrame EXCEPT !.op = "create", !.customer_id = customer_id,
                             !.items_data = items_data,
                             !.idempotency_key = idempotency_key,
                             !.shipping = shipping]
        existing == { id \in DOMAIN store : store[id].idempotency_key = idempotency_key }
    IN  IF Truthy(idempotency_key) /\ existing # {}
        THEN [f EXCEPT !.pc = "returned",
                       !.result = [order |-> store[CHOOSE id \in existing : TRUE],
                                   created |-> FALSE]]
        ELSE [f EXCEPT !.pc = "customer"]

\* a variant of the customer lookup that creates the order row before it looks
\* at the answer, and so has a row to clean up when the customer is absent
create_order_customer_RowFirst(f, S, store, realOut, mockOut) ==
    LET call == Invoke(S.CustomerService, "get_customer", <<f.customer_id>>,
                       realOut, mockOut)
        g == Logged(f, call)
        blank == [name |-> "", email |-> ""]
    IN  IF ~call.ret.ok THEN Raised(g, call.ret.err)
        ELSE IF call.ret.val = None
        THEN Caught([g EXCEPT !.order = NewOrder(NewOrderId(store), f.customer_id, blank,
                                                 f.idempotency_key, f.shipping)],
                    Err("ValueError", "Customer not found", ""))
        ELSE IF UniqueKeyViolation(store, f.idempotency_key)
        THEN Raised(g, Err("IntegrityError", "UNIQUE constraint failed", "idempotency_key"))
        ELSE [g EXCEPT !.pc = "product", !.idx = 1,
                       !.order = NewOrder(NewOrderId(store), f.customer_id, call.ret.val,
                                          f.idempotency_key, f.shipping)]

\* create_order, the customer lookup and the pending order
create_order_customer(f, S, store, realOut, mockOut) ==
    LET call == Invoke(S.CustomerService, "get_customer", <<f.customer_id>>,
                       realOut, mockOut)
        g == Logged(f, call)
    IN  IF ~call.ret.ok THEN Raised(g, call.ret.err)
        ELSE IF call.ret.val = None
        THEN Raised(g, Err("ValueError", "Customer not found", ""))
        ELSE IF UniqueKeyViolation(store, f.idempotency_key)
        THEN Raised(g, Err("IntegrityError", "UNIQUE constraint failed", "idempotency_key"))
        ELSE [g EXCEPT !.pc = "product", !.idx = 1,
                       !.order = NewOrder(NewOrderId(store), f.customer_id, call.ret.val,
                                          f.idempotency_key, f.shipping)]

\* create_order, the catalog lookup of item idx
create_order_product(f, S, realOut, mockOut) ==
    LET item_data == f.items_data[f.idx]
        call == Invoke(S.CatalogService, "get_product", <<item_data.product_id>>,
                       realOut, mockOut)
        g == Logged(f, call)
    IN  IF ~call.ret.ok THEN Caught(g, call.ret.err)
        ELSE IF call.ret.val = None
        THEN Caught(g, Err("ValueError", "Product not found", ""))
        ELSE IF ~call.ret.val.is_active
        THEN Caught(g, Err("ValueError", "Product is not active", ""))
        ELSE [g EXCEPT !.pc = "reserve", !.product = call.ret.val]

\* the arguments of the reserve_stock call for item idx
ReserveArgs(f) ==
    <<f.product.product_id, f.product.sku, f.items_data[f.idx].quantity>>

\* a variant of the reservation step that records the newest reservation first
create_order_reserve_Prepended(f, S, realOut, mockOut) ==
    LET item_data == f.items_data[f.idx]
        call == Invoke(S.InventoryService, "reserve_stock", ReserveArgs(f),
                       realOut, mockOut)
        g == Logged(f, call)
        reservation == call.ret.val
    IN  IF ~call.ret.ok THEN Caught(g, call.ret.err)
        ELSE IF ~reservation.success
        THEN Caught(g, Err("ValueError", "Cannot reserve", reservation.error))
        ELSE [g EXCEPT !.reservations = <<reservation.reservation_id>> \o f.reservations,
                       !.items = <<NewOrderItem(f.product, item_data.quantity, reservation)>>
                                     \o f.items,
                       !.product = None,
                       !.idx = f.idx + 1,
                       !.pc = IF f.idx = Len(f.items_data) THEN "charge" ELSE "product"]

\* create_order, the reservation of item idx and its OrderItem row
create_order_reserve(f, S, realOut, mockOut) ==
    LET item_data == f.items_data[f.idx]
        call == Invoke(S.InventoryService, "reserve_stock", ReserveArgs(f),
                       realOut, mockOut)
        g == Logged(f, call)
        reservation == call.ret.val
    IN  IF ~call.ret.ok THEN Caught(g, call.ret.err)
        ELSE IF ~reservation.success
        THEN Caught(g, Err("ValueError", "Cannot reserve", reservation.error))
        ELSE [g EXCEPT !.reservations = Append(f.reservations, reservation.reservation_id),
                       !.items = Append(f.items,
                                        NewOrderItem(f.product, item_data.quantity, reservation)),
                       !.product = None,
                       !.idx = f.idx + 1,
                       !.pc = IF f.idx = Len(f.items_data) THEN "charge" ELSE "product"]

\* idempotency_key or str(uuid.uuid4())
ChargeKey(idempotency_key) == IF Truthy(idempotency_key) THEN idempotency_key ELSE FreshKey

\* a variant of the charge arguments that passes the subtotal, without shipping
ChargeArgs_Subtotal(f) ==
    <<f.order.order_id, calculate_totals(f.order, f.items).subtotal,
      ChargeKey(f.idempotency_key)>>

\* the arguments of the charge call: the totals are computed first
ChargeArgs(f) ==
    <<f.order.order_id, calculate_totals(f.order, f.items).order_total,
      ChargeKey(f.idempotency_key)>>

\* a variant of the payment step that confirms the order whenever the charge
\* call returns, without reading its success flag
create_order_charge_SuccessUnread(f, S, realOut, mockOut) ==
    LET order == calculate_totals(f.order, f.items)
        call == Invoke(S.PaymentService, "charge", ChargeArgs(f), realOut, mockOut)
        g == [Logged(f, call) EXCEPT !.order = order]
        paid == [order EXCEPT !.order_status = "CONFIRMED", !.payment_status = "PAID"]
    IN  IF ~call.ret.ok THEN Caught(g, call.ret.err)
        ELSE [g EXCEPT !.order = paid, !.pc = "returned",
                       !.result = [order |-> paid, created |-> TRUE]]

\* a variant of the charge step that confirms the order without marking it paid
create_order_charge_ConfirmedUnpaid(f, S, realOut, mockOut) ==
    LET order == calculate_totals(f.order, f.items)
        call == Invoke(S.PaymentService, "charge", ChargeArgs(f), realOut, mockOut)
        g == [Logged(f, call) EXCEPT !.order = order]
        payment_result == call.ret.val
        paid == [order EXCEPT !.order_status = "CONFIRMED"]
    IN  IF ~call.ret.ok THEN Caught(g, call.ret.err)
        ELSE IF payment_result.success
        THEN [g EXCEPT !.order = paid, !.pc = "returned",
                       !.result = [order |-> paid, created |-> TRUE]]
        ELSE Caught(g, Err("ValueError", "Payment failed", payment_result.error))

\* create_order, the totals and the payment
create_order_charge(f, S, realOut, mockOut) ==
    LET order == calculate_totals(f.order, f.items)
        call == Invoke(S.PaymentService, "charge", ChargeArgs(f), realOut, mockOut)
        g == [Logged(f, call) EXCEPT !.order = order]
        payment_result == call.ret.val
        paid == [order EXCEPT !.order_status = "CONFIRMED", !.payment_status = "PAID"]
    IN  IF ~call.ret.ok THEN Caught(g, call.ret.err)
        ELSE IF payment_result.success
        THEN [g EXCEPT !.order = paid, !.pc = "returned",
                       !.result = [order |-> paid, created |-> TRUE]]
        ELSE Caught(g, Err("ValueError", "Payment failed", payment_result.error))

\* a variant of the cleanup loop that ends at the first release that raises
create_order_release_StopsAtFailure(f, S, realOut, mockOut) ==
    LET call == Invoke(S.InventoryService, "release_reservation",
                       <<f.reservations[f.idx]>>, realOut, mockOut)
    IN  [Logged(f, call) EXCEPT
                  !.idx = f.idx + 1,
                  !.pc = IF f.idx = Len(f.reservations) \/ ~call.ret.ok
                         THEN "delete" ELSE "release"]

\* a variant of the cleanup loop in which an exception of the release takes
\* the place of the exception being handled
create_order_release_ErrorReplaced(f, S, realOut, mockOut) ==
    LET call == Invoke(S.InventoryService, "release_reservation",
                       <<f.reservations[f.idx]>>, realOut, mockOut)
    IN  [Logged(f, call) EXCEPT
                  !.exc = IF call.ret.ok THEN f.exc ELSE call.ret.err,
                  !.idx = f.idx + 1,
                  !.pc = IF f.idx = Len(f.reservations) THEN "delete" ELSE "release"]

\* create_order, one round of the cleanup loop: an exception of the release
\* is logged and the loop goes on
create_order_release(f, S, realOut, mockOut) ==
    LET call == Invoke(S.InventoryService, "release_reservation",
                       <<f.reservations[f.idx]>>, realOut, mockOut)
    IN  [Logged(f, call) EXCEPT
                  !.idx = f.idx + 1,
                  !.pc = IF f.idx = Len(f.reservations) THEN "delete" ELSE "release"]

\* create_order, order.delete() (its items go with it) and the re-raise
create_order_delete(f) ==
    [f EXCEPT !.order = None, !.items = << >>, !.pc = "raised"]

----------------------------------------------------------------------------
(* cancel_order *)

\* f'PAY-{order.order_id}'
PayRef(order_id) == [prefix |-> "PAY-", order_id |-> order_id]

\* a variant of the status checks without the check for a delivered order
cancel_order_check_DeliveredAllowed(order, items) ==
    LET f == [NoFrame EXCEPT !.op = "cancel", !.order = order, !.items = items]
    IN  IF order.order_status = "CANCELLED"
        THEN [f EXCEPT !.pc = "returned", !.result = [order |-> order]]
        ELSE [f EXCEPT !.idx = 1,
                       !.pc = IF Len(items) = 0 THEN "c_refund" ELSE "c_release"]

\* a variant of the status checks without the early return for a cancelled order
cancel_order_check_CancelledAgain(order, items) ==
    LET f == [NoFrame EXCEPT !.op = "cancel", !.order = order, !.items = items]
    IN  IF order.order_status = "DELIVERED"
        THEN Raised(f, Err("ValueError", "Cannot cancel delivered order", ""))
        ELSE [f EXCEPT !.idx = 1,
                       !.pc = IF Len(items) = 0 THEN "c_refund" ELSE "c_release"]

\* cancel_order, the two status checks; items: order.items.all()
cancel_order_check(order, items) ==
    LET f == [NoFrame EXCEPT !.op = "cancel", !.order = order, !.items = items]
    IN  IF order.order_status = "CANCELLED"
        THEN [f EXCEPT !.pc = "returned", !.result = [order |-> order]]
        ELSE IF order.order_status = "DELIVERED"
        THEN Raised(f, Err("ValueError", "Cannot cancel delivered order", ""))
        ELSE [f EXCEPT !.idx = 1,
                       !.pc = IF Len(items) = 0 THEN "c_refund" ELSE "c_release"]

\* a variant of the release loop that lets an exception of the release escape
cancel_order_release_FailureEscapes(f, S, realOut, mockOut) ==
    LET item == f.items[f.idx]
        call == Invoke(S.InventoryService, "release_reservation",
                       <<item.reservation_id>>, realOut, mockOut)
        g == IF item.reservation_id # None THEN Logged(f, call) ELSE f
    IN  IF item.reservation_id # None /\ ~call.ret.ok
        THEN Raised(g, call.ret.err)
        ELSE [g EXCEPT !.idx = f.idx + 1,
                       !.pc = IF f.idx = Len(f.items) THEN "c_refund" ELSE "c_release"]

\* cancel_order, one round of the release loop
cancel_order_release(f, S, realOut, mockOut) ==
    LET item == f.items[f.idx]
        call == Invoke(S.InventoryService, "release_reservation",
                       <<item.reservation_id>>, realOut, mockOut)
        g == IF item.reservation_id # None THEN Logged(f, call) ELSE f
    IN  [g EXCEPT !.idx = f.idx + 1,
                  !.pc = IF f.idx = Len(f.items) THEN "c_refund" ELSE "c_release"]

\* the arguments of the refund call
RefundArgs(f) == <<PayRef(f.order.order_id), f.order.order_total>>

\* cancel_order, the refund of a paid order, then the status change and save
\* a variant of the last step of cancel_order that also zeroes the totals of
\* the cancelled order
cancel_order_refund_TotalsCleared(f, S, realOut, mockOut) ==
    LET call == Invoke(S.PaymentService, "refund", RefundArgs(f), realOut, mockOut)
        paid == f.order.payment_status = "PAID"
        payment_status == IF paid /\ call.ret.ok THEN "REFUNDED" ELSE f.order.payment_status
        order == [f.order EXCEPT !.payment_status = payment_status,
                                 !.order_status = "CANCELLED",
                                 !.subtotal = 0, !.order_total = 0]
        g == IF paid THEN Logged(f, call) ELSE f
    IN  [g EXCEPT !.order = order,
                  !.pc = "returned",
                  !.result = [order |-> order]]

cancel_order_refund(f, S, realOut, mockOut) ==
    LET call == Invoke(S.PaymentService, "refund", RefundArgs(f), realOut, mockOut)
        paid == f.order.payment_status = "PAID"
        payment_status == IF paid /\ call.ret.ok THEN "REFUNDED" ELSE f.order.payment_status
        order == [f.order EXCEPT !.payment_status = payment_status,
                                 !.order_status = "CANCELLED"]
        g == IF paid THEN Logged(f, call) ELSE f
    IN  [g EXCEPT !.order = order,
                  !.pc = "returned",
                  !.result = [order |-> order]]

----------------------------------------------------------------------------
(* State *)

VARIABLES
    settings,      \* USE_REAL_SERVICES and ENABLE_SERVICE_FALLBACK
    orders,        \* committed Order rows, by order_id
    order_items,   \* committed OrderItem rows of each order, in creation order
    cur,           \* the running invocation
    twin,          \* the same create_order call run with the mock catalog only
    other,         \* a second create_order invocation, suspended after its idempotency check
    realHeld,      \* reservations held by the networked inventory service
    payments,      \* charges made by the payment implementations
    refunds,       \* refunds made by the payment implementations
    catalogUp      \* the networked catalog has answered a call of the running invocation

vars == <<settings, orders, order_items, cur, twin, other, realHeld, payments,
          refunds, catalogUp>>

Range(s) == { s[i] : i \in 1..Len(s) }

\* reservation identifiers in use
LiveReservations ==
    { h.id : h \in realHeld } \cup Range(cur.reservations) \cup
    UNION { { order_items[o][i].reservation_id : i \in 1..Len(order_items[o]) } :
            o \in DOMAIN order_items }

\* a reservation identifier no one holds yet
FreshReservation(impl) ==
    Ident(impl, CHOOSE n \in 1..(Cardinality(LiveReservations) + 1) :
                    /\ Ident(impl, n) \notin LiveReservations
                    /\ \A m \in 1..(n - 1) : Ident(impl, m) \in LiveReservations)

FreshPayment(impl) == Ident(impl, Cardinality(payments) + 1)
FreshRefund(impl) == Ident(impl, Cardinality(refunds) + 1)

\* the last call made by the invocation
LastCall(f) == f.last

\* the networked inventory service after the call
HeldAfter(held, call) ==
    IF call.real.called /\ call.real.out.ok
    THEN IF call.method = "reserve_stock" /\ call.real.out.val.success
         THEN held \cup { [id |-> call.real.out.val.reservation_id,
                           product_id |-> call.real.args[1],
                           quantity |-> call.real.out.val.quantity] }
         ELSE IF call.method = "release_reservation"
         THEN { h \in held : h.id # call.real.args[1] }
         ELSE held
    ELSE held

\* the successful answers of the implementations that were called
Successes(call) ==
    ( IF call.real.called /\ call.real.out.ok /\ call.real.out.val.success
      THEN { call.real.out.val } ELSE {} ) \cup
    ( IF call.mock.called /\ call.mock.out.ok /\ call.mock.out.val.success
      THEN { call.mock.out.val } ELSE {} )

\* the charges after a charge call
PaymentsAfter(paid, call) ==
    paid \cup { [payment_id |-> v.payment_id, order_id |-> call.args[1],
                 amount |-> call.args[2], idempotency_key |-> call.args[3]] :
                v \in Successes(call) }

\* the refunds after a refund call
RefundsAfter(refunded, call) ==
    refunded \cup { [refund_id |-> v.refund_id, payment_id |-> call.args[1],
                     amount |-> call.args[2]] : v \in Successes(call) }

----------------------------------------------------------------------------
(* Initial state and steps *)

Init ==
    /\ settings \in [USE_REAL_SERVICES : BOOLEAN, ENABLE_SERVICE_FALLBACK : BOOLEAN]
    /\ orders = << >>
    /\ order_items = << >>
    /\ cur = NoFrame
    /\ twin = NoFrame
    /\ other = NoFrame
    /\ realHeld = {}
    /\ payments = {}
    /\ refunds = {}
    /\ catalogUp = FALSE

\* the items_data a stored order was requested with
Requested(items) ==
    [i \in 1..Len(items) |->
        [product_id |-> items[i].product_id, quantity |-> items[i].quantity]]

\* the twin takes the step the running invocation takes while it is at the same place
TwinStep(next) == IF twin.pc = cur.pc THEN next ELSE twin

\* create_order is called; it returns at once for a known idempotency key.
\* Once every order identifier is taken only requests that repeat a stored
\* order are made.
CreateOrder(customer_id, items_data, idempotency_key) ==
    /\ cur.pc = "idle"
    /\ \/ OrderIds \ DOMAIN orders # {}
       \/ \E id \in DOMAIN orders :
             /\ idempotency_key # NoKey
             /\ orders[id].idempotency_key = idempotency_key
             /\ items_data = Requested(order_items[id])
    /\ cur' = create_order_check(orders, customer_id, items_data, idempotency_key,
                                 DefaultShipping)
    /\ twin' = create_order_check(orders, customer_id, items_data, idempotency_key,
                                  DefaultShipping)
    /\ UNCHANGED <<settings, other, orders, order_items, realHeld, payments, refunds, catalogUp>>

GetCustomer ==
    /\ cur.pc = "customer"
    /\ \E realOut \in RealCustomerService_get_customer(cur.customer_id),
          mockOut \in MockOutcomes(MockCustomerService_get_customer(cur.customer_id)) :
        /\ cur' = create_order_customer(cur, Services(settings), orders, realOut, mockOut)
        /\ twin' = TwinStep(create_order_customer(twin, ServicesMockCatalog(settings),
                                                  orders, realOut, mockOut))
    /\ UNCHANGED <<settings, other, orders, order_items, realHeld, payments, refunds, catalogUp>>

GetProduct ==
    /\ cur.pc = "product"
    /\ LET product_id == cur.items_data[cur.idx].product_id IN
       \E realOut \in RealCatalogService_get_product(product_id),
          mockOut \in MockOutcomes(MockCatalogService_get_product(product_id)) :
        /\ cur' = create_order_product(cur, Services(settings), realOut, mockOut)
        /\ twin' = TwinStep(create_order_product(twin, ServicesMockCatalog(settings),
                                                 realOut, mockOut))
    /\ catalogUp' = (catalogUp \/ (LastCall(cur').real.called /\ LastCall(cur').real.out.ok))
    /\ UNCHANGED <<settings, other, orders, order_items, realHeld, payments, refunds>>

ReserveStock ==
    /\ cur.pc = "reserve"
    /\ LET a == ReserveArgs(cur) IN
       \E realOut \in RealInventoryService_reserve_stock(
                          a[1], a[2], a[3], FreshReservation("real"), realHeld),
          mockOut \in MockOutcomes(MockInventoryService_reserve_stock(
                          a[1], a[2], a[3], FreshReservation("mock"))) :
        /\ cur' = create_order_reserve(cur, Services(settings), realOut, mockOut)
        /\ twin' = TwinStep(create_order_reserve(twin, ServicesMockCatalog(settings),
                                                 realOut, mockOut))
    /\ realHeld' = HeldAfter(realHeld, LastCall(cur'))
    /\ UNCHANGED <<settings, other, orders, order_items, payments, refunds, catalogUp>>

\* the payment; a confirmed order is committed when create_order returns
Charge ==
    /\ cur.pc = "charge"
    /\ LET a == ChargeArgs(cur) IN
       \E realOut \in RealPaymentService_charge(a[1], a[2], a[3], FreshPayment("real")),
          mockOut \in { Ok(MockPaymentService_charge(a[1], a[2], a[3],
                                                     FreshPayment("mock"))) } :
        /\ cur' = create_order_charge(cur, Services(settings), realOut, mockOut)
        /\ twin' = TwinStep(create_order_charge(twin, ServicesMockCatalog(settings),
                                                realOut, mockOut))
    /\ payments' = PaymentsAfter(payments, LastCall(cur'))
    /\ IF cur'.pc = "returned"
       THEN /\ orders' = orders @@ (cur'.order.order_id :> cur'.order)
            /\ order_items' = order_items @@ (cur'.order.order_id :> cur'.items)
       ELSE UNCHANGED <<orders, order_items>>
    /\ UNCHANGED <<settings, other, realHeld, refunds, catalogUp>>

ReleaseReservation ==
    /\ cur.pc = "release"
    /\ LET reservation_id == cur.reservations[cur.idx] IN
       \E realOut \in RealInventoryService_release_reservation(reservation_id),
          mockOut \in { Ok(MockInventoryService_release_reservation(reservation_id)) } :
        /\ cur' = create_order_release(cur, Services(settings), realOut, mockOut)
        /\ twin' = TwinStep(create_order_release(twin, ServicesMockCatalog(settings),
                                                 realOut, mockOut))
    /\ realHeld' = HeldAfter(realHeld, LastCall(cur'))
    /\ UNCHANGED <<settings, other, orders, order_items, payments, refunds, catalogUp>>

DeleteOrder ==
    /\ cur.pc = "delete"
    /\ cur' = create_order_delete(cur)
    /\ twin' = TwinStep(create_order_delete(twin))
    /\ UNCHANGED <<settings, other, orders, order_items, realHeld, payments, refunds, catalogUp>>

\* cancel_order is called on a stored order
CancelOrder(order_id) ==
    /\ cur.pc = "idle"
    /\ order_id \in DOMAIN orders
    /\ cur' = cancel_order_check(orders[order_id], order_items[order_id])
    /\ UNCHANGED <<settings, other, orders, order_items, twin, realHeld, payments, refunds, catalogUp>>

CancelRelease ==
    /\ cur.pc = "c_release"
    /\ LET reservation_id == cur.items[cur.idx].reservation_id IN
       \E realOut \in RealInventoryService_release_reservation(reservation_id),
          mockOut \in { Ok(MockInventoryService_release_reservation(reservation_id)) } :
        cur' = cancel_order_release(cur, Services(settings), realOut, mockOut)
    /\ realHeld' = IF Len(cur'.log) > Len(cur.log)
                   THEN HeldAfter(realHeld, LastCall(cur')) ELSE realHeld
    /\ UNCHANGED <<settings, other, orders, order_items, twin, payments, refunds, catalogUp>>

\* the refund and order.save(); the change is committed when cancel_order returns
CancelRefund ==
    /\ cur.pc = "c_refund"
    /\ LET a == RefundArgs(cur) IN
       \E realOut \in RealPaymentService_refund(a[1], a[2], FreshRefund("real")),
          mockOut \in { Ok(MockPaymentService_refund(a[1], a[2], FreshRefund("mock"))) } :
        cur' = cancel_order_refund(cur, Services(settings), realOut, mockOut)
    /\ refunds' = IF Len(cur'.log) > Len(cur.log)
                  THEN RefundsAfter(refunds, LastCall(cur')) ELSE refunds
    /\ orders' = [orders EXCEPT ![cur'.order.order_id] = cur'.order]
    /\ UNCHANGED <<settings, other, order_items, twin, realHeld, payments, catalogUp>>

\* the caller takes the result or the exception; the invocation is over
Return ==
    /\ cur.pc \in {"returned", "raised"}
    /\ cur' = NoFrame
    /\ twin' = NoFrame
    /\ catalogUp' = FALSE
    /\ UNCHANGED <<settings, other, orders, order_items, realHeld, payments, refunds>>

\* a confirmed order is marked delivered by the fulfilment side
MarkDelivered(order_id) ==
    /\ cur.pc = "idle"
    /\ order_id \in DOMAIN orders
    /\ orders[order_id].order_status = "CONFIRMED"
    /\ orders' = [orders EXCEPT ![order_id].order_status = "DELIVERED"]
    /\ UNCHANGED <<settings, other, order_items, cur, twin, realHeld, payments, refunds, catalogUp>>

Next ==
    \/ \E customer_id \in CustomerIds, items_data \in ItemLists, idempotency_key \in Keys :
          CreateOrder(customer_id, items_data, idempotency_key)
    \/ GetCustomer
    \/ GetProduct
    \/ ReserveStock
    \/ Charge
    \/ ReleaseReservation
    \/ DeleteOrder
    \/ \E order_id \in DOMAIN orders : CancelOrder(order_id)
    \/ CancelRelease
    \/ CancelRefund
    \/ Return
    \/ \E order_id \in DOMAIN orders : MarkDelivered(order_id)

Spec == Init /\ [][Next]_vars

----------------------------------------------------------------------------
(* Properties *)

\* the calls of a log made to a method
CallsTo(log, method_name) == SelectSeq(log, LAMBDA c : c.method = method_name)

\* a create_order call has ended, normally or with an exception
CreateEnded == cur.op = "create" /\ cur.pc \in {"returned", "raised"}

\* the stored orders that carry the key
OrdersWithKey(key) == { id \in DOMAIN orders : orders[id].idempotency_key = key }

\* The running create_order call repeats an earlier, successful call: it was
\* made with a non-null key and the items of an order stored under that key,
\* and it is not the call that created the order.
C1_SecondCall ==
    /\ CreateEnded
    /\ cur.idempotency_key # NoKey
    /\ ~(cur.pc = "returned" /\ cur.result.created)
    /\ \E id \in OrdersWithKey(cur.idempotency_key) :
          Requested(order_items[id]) = cur.items_data

\* C1: after two sequential create_order calls with the same non-null key and
\* the same items, the first succeeding, the store holds exactly one order with
\* that key, exactly one charge was made for it, and the second call returned
\* the first call's order flagged as not newly created.
C1_Idempotency ==
    C1_SecondCall =>
        /\ cur.pc = "returned"
        /\ cur.result.created = FALSE
        /\ Cardinality(OrdersWithKey(cur.idempotency_key)) = 1
        /\ \A id \in OrdersWithKey(cur.idempotency_key) :
              /\ cur.result.order = orders[id]
              /\ Cardinality({ p \in payments : p.order_id = id }) = 1
        /\ CallsTo(cur.log, "charge") = << >>


\* the reservations the networked inventory service holds
HeldIds == { h.id : h \in realHeld }

\* create_order has raised out of its item loop: the customer was found, at
\* least one item was looked up and the payment was never reached
ItemStepFailed ==
    /\ cur.op = "create"
    /\ cur.pc = "raised"
    /\ CallsTo(cur.log, "get_product") # << >>
    /\ CallsTo(cur.log, "charge") = << >>

\* the item whose step failed: every item up to it was looked up
FailedItem == Len(CallsTo(cur.log, "get_product"))

\* no row of the failed order is left: the rows written by the invocation are
\* deleted and no half-made order is in the store
NoOrderLeft ==
    /\ cur.order = None
    /\ cur.items = << >>
    /\ DOMAIN order_items = DOMAIN orders
    /\ \A id \in DOMAIN orders : orders[id].order_status # "PENDING"

\* a release was asked for every recorded reservation, in the order recorded
ReleasesIssued ==
    LET rel == CallsTo(cur.log, "release_reservation")
    IN  /\ Len(rel) = Len(cur.reservations)
        /\ \A i \in 1..Len(rel) : rel[i].args = <<cur.reservations[i]>>

\* C2: when the step for item k fails, after the call has returned its error
\* no Order or OrderItem row of the order is left and every one of the k-1
\* reservations made before is released at the inventory service.
C2_AllReleased ==
    ItemStepFailed =>
        /\ NoOrderLeft
        /\ Len(cur.reservations) = FailedItem - 1
        /\ \A i \in 1..Len(cur.reservations) : cur.reservations[i] \notin HeldIds

\* what the except block does give at an item failure: the rows are gone and a
\* release was asked for each of the k-1 reservations, whatever its answer
ItemFailureCompensated ==
    ItemStepFailed =>
        /\ NoOrderLeft
        /\ Len(cur.reservations) = FailedItem - 1
        /\ ReleasesIssued

\* the failure came at the second item or later, after a reservation was made
C2_Witness ==
    /\ ItemStepFailed
    /\ FailedItem = 2
    /\ Len(cur.reservations) = 1
    /\ cur.reservations[1].impl = "real"

\* the catalog answered the last lookup with no product or an inactive one
ProductUnusable ==
    /\ cur.op = "create"
    /\ CallsTo(cur.log, "get_product") # << >>
    /\ LET lookups == CallsTo(cur.log, "get_product")
           ret == lookups[Len(lookups)].ret
       IN  ret.ok /\ (ret.val = None \/ ~ret.val.is_active)

\* no reservation was asked for the failed item or a later one: one
\* reserve_stock call per item before the failed one, each for its item
NoReserveFromFailedItem ==
    LET res == CallsTo(cur.log, "reserve_stock")
    IN  /\ Len(res) = FailedItem - 1
        /\ \A i \in 1..Len(res) :
              /\ res[i].args[1] = cur.items_data[i].product_id
              /\ res[i].args[3] = cur.items_data[i].quantity

\* C3: when an item's product is absent or inactive, create_order fails
\* without a reserve_stock call for that item or a later one, the reservations
\* made for the earlier items are released, and no order exists after the
\* return.
C3_UnusableProduct ==
    ProductUnusable =>
        /\ cur.pc \in {"release", "delete", "raised"}
        /\ NoReserveFromFailedItem
        /\ cur.pc = "raised" =>
              /\ NoOrderLeft
              /\ \A i \in 1..Len(cur.reservations) : cur.reservations[i] \notin HeldIds

\* what the code does give for an absent or inactive product: the ValueError,
\* no reserve_stock call from that item on, a release asked for each earlier
\* reservation and no order after the return
UnusableProductCompensated ==
    ProductUnusable =>
        /\ cur.pc \in {"release", "delete", "raised"}
        /\ cur.exc.cls = "ValueError"
        /\ cur.exc.msg \in {"Product not found", "Product is not active"}
        /\ NoReserveFromFailedItem
        /\ cur.pc = "raised" => (NoOrderLeft /\ ReleasesIssued)

\* the second item is inactive, the first was reserved, the call has failed
C3_Witness ==
    /\ ProductUnusable
    /\ cur.pc = "raised"
    /\ cur.exc.msg = "Product is not active"
    /\ Len(cur.reservations) = 1

----------------------------------------------------------------------------

\* the stored row of the order cancel_order was called on
StoredOrder == orders[cur.order.order_id]

\* C4: cancel_order on a DELIVERED order fails with the error for a delivered
\* order, leaves order_status and payment_status as they were and makes no
\* release and no refund call.
C4_DeliveredNotCancelled ==
    (cur.op = "cancel" /\ StoredOrder.order_status = "DELIVERED") =>
        /\ cur.pc = "raised"
        /\ cur.exc = Err("ValueError", "Cannot cancel delivered order", "")
        /\ cur.order = StoredOrder
        /\ cur.log = << >>
        /\ \A r \in refunds : r.payment_id # PayRef(cur.order.order_id)

C4_Witness ==
    /\ cur.op = "cancel"
    /\ cur.pc = "raised"
    /\ StoredOrder.order_status = "DELIVERED"
    /\ StoredOrder.payment_status = "PAID"

\* cancel_order is being called on a stored order that is already CANCELLED
CancelOfCancelled ==
    /\ cur.pc = "idle"
    /\ cur'.op = "cancel"
    /\ orders[cur'.order.order_id].order_status = "CANCELLED"

\* C5: cancel_order on an order that is already CANCELLED returns at once with
\* the order unchanged in every field, writes nothing to the store and makes no
\* release and no refund call.
C5_CancelledNoOp ==
    [][ CancelOfCancelled =>
          /\ cur'.pc = "returned"
          /\ cur'.result.order = orders[cur'.order.order_id]
          /\ cur'.order = orders[cur'.order.order_id]
          /\ cur'.log = << >>
          /\ UNCHANGED <<orders, order_items, realHeld, payments, refunds>> ]_vars

\* a second cancel_order has returned the order, cancelled and still PAID
C5_Witness ==
    /\ cur.op = "cancel"
    /\ cur.pc = "returned"
    /\ cur.log = << >>
    /\ cur.result.order.order_status = "CANCELLED"
    /\ cur.result.order.payment_status = "PAID"

----------------------------------------------------------------------------

\* the calls an invocation made to the Inventory and Payment services
InventoryAndPaymentCalls(log) ==
    SelectSeq(log, LAMBDA c : c.service \in {"InventoryService", "PaymentService"})

\* create_order runs with real services and fallback enabled, and so far every
\* call to the real catalog has failed
CatalogOnFallback ==
    /\ cur.op = "create"
    /\ settings.USE_REAL_SERVICES
    /\ settings.ENABLE_SERVICE_FALLBACK
    /\ ~catalogUp

\* C6: with real services and fallback enabled, when the real catalog fails on
\* every call, create_order goes as it goes with the mock catalog alone: it
\* ends the same way, with the same order (items, prices, totals, statuses)
\* and the same sequence of Inventory and Payment calls.
C6_FallbackTransparent ==
    CatalogOnFallback =>
        /\ twin.pc = cur.pc
        /\ twin.order = cur.order
        /\ twin.items = cur.items
        /\ twin.reservations = cur.reservations
        /\ twin.result = cur.result
        /\ InventoryAndPaymentCalls(twin.log) = InventoryAndPaymentCalls(cur.log)

\* a two-item order was created although the real catalog failed both times
C6_Witness ==
    /\ CatalogOnFallback
    /\ cur.pc = "returned"
    /\ cur.result.created
    /\ Len(cur.items) = MaxItems
    /\ Len(CallsTo(cur.log, "get_product")) = MaxItems
    /\ cur.last.service = "PaymentService"
    /\ cur.order.order_status = "CONFIRMED"

----------------------------------------------------------------------------

\* the last call through a wrapper found the real service failing
RealFailed ==
    /\ cur.last # None
    /\ cur.last.real.called
    /\ ~cur.last.real.out.ok

\* the exception _call_with_fallback builds itself: "<service> unavailable",
\* made of the failure of the real service and the failure of the mock
IsCombinedUnavailable(e) ==
    /\ e.cls = "Exception"
    /\ e.msg = "unavailable"

\* C7: with real services on and fallback disabled, when the real service
\* fails the mock is not called and the caller gets the real service's
\* exception, unchanged.
C7_NoFallbackWhenDisabled ==
    (RealFailed /\ settings.USE_REAL_SERVICES /\ ~settings.ENABLE_SERVICE_FALLBACK) =>
        /\ cur.last.mock = NotCalled
        /\ cur.last.ret = cur.last.real.out

C7_Witness ==
    /\ RealFailed
    /\ settings.USE_REAL_SERVICES
    /\ ~settings.ENABLE_SERVICE_FALLBACK
    /\ cur.last.method = "reserve_stock"

BothImplementationsFailed ==
    /\ RealFailed
    /\ cur.last.mock.called
    /\ ~cur.last.mock.out.ok

\* C9: with real services on and fallback enabled, when the real service and
\* the mock both fail the call raises one combined "unavailable" error that
\* names the service and carries the cause of the real failure and the cause
\* of the mock failure.
C9_BothFailedCombined ==
    (BothImplementationsFailed /\ settings.USE_REAL_SERVICES
                               /\ settings.ENABLE_SERVICE_FALLBACK) =>
        /\ ~cur.last.ret.ok
        /\ IsCombinedUnavailable(cur.last.ret.err)
        /\ cur.last.ret.err.detail = cur.last.service
        /\ cur.last.ret.err.real = cur.last.real.out.err.msg
        /\ cur.last.ret.err.mock = cur.last.mock.out.err.msg
        /\ cur.last.ret.err.mock # ""

C9_Witness ==
    /\ BothImplementationsFailed
    /\ settings.USE_REAL_SERVICES
    /\ settings.ENABLE_SERVICE_FALLBACK
    /\ cur.last.method = "reserve_stock"
    /\ cur.pc \in {"release", "delete"}
    /\ cur.exc = cur.last.ret.err

\* the last call through a wrapper found the real service failing and the
\* mock answering
FellBack ==
    /\ RealFailed
    /\ cur.last.mock.called
    /\ cur.last.mock.out.ok

\* C10: with real services on and fallback enabled, when the real service
\* fails and the mock succeeds the caller gets exactly what the mock returned
\* for the same arguments, and no exception.
C10_FallbackResultReturned ==
    (FellBack /\ settings.USE_REAL_SERVICES /\ settings.ENABLE_SERVICE_FALLBACK) =>
        /\ cur.last.mock.args = cur.last.args
        /\ cur.last.real.args = cur.last.args
        /\ cur.last.ret = cur.last.mock.out
        /\ cur.last.ret.ok

\* a fallback reservation: the real inventory failed, the mock reserved
C10_Witness ==
    /\ FellBack
    /\ cur.last.method = "reserve_stock"
    /\ cur.last.ret.val.success
    /\ cur.last.ret.val.reservation_id.impl = "mock"

----------------------------------------------------------------------------

\* C11: with use_real_services off every call goes to the mock only: the real
\* service is not called, and what the mock returns or raises is what the
\* caller gets, as it is, whatever enable_fallback says.
C11_MockOnlyWhenRealOff ==
    (cur.last # None /\ ~settings.USE_REAL_SERVICES) =>
        /\ cur.last.real = NotCalled
        /\ cur.last.mock.called
        /\ cur.last.mock.args = cur.last.args
        /\ cur.last.ret = cur.last.mock.out

\* a mock's own exception has reached create_order although fallback is enabled
C11_Witness ==
    /\ cur.last # None
    /\ ~settings.USE_REAL_SERVICES
    /\ settings.ENABLE_SERVICE_FALLBACK
    /\ ~cur.last.ret.ok
    /\ cur.last.ret.err = MockDataError
    /\ cur.exc = MockDataError

----------------------------------------------------------------------------

\* the calls of the workflow proper, without the releases of the cleanup
WorkflowCalls(log) == SelectSeq(log, LAMBDA c : c.method # "release_reservation")

\* the answer to a workflow call is one the workflow cannot go on with
StepFailed(c) ==
    \/ ~c.ret.ok
    \/ c.method = "get_product" /\ (c.ret.val = None \/ ~c.ret.val.is_active)
    \/ c.method \in {"reserve_stock", "charge"} /\ ~c.ret.val.success

\* the error a failed workflow call stands for
TriggerOf(c) ==
    IF ~c.ret.ok THEN c.ret.err
    ELSE IF c.method = "get_product"
    THEN IF c.ret.val = None THEN Err("ValueError", "Product not found", "")
         ELSE Err("ValueError", "Product is not active", "")
    ELSE IF c.method = "reserve_stock"
    THEN Err("ValueError", "Cannot reserve", c.ret.val.error)
    ELSE Err("ValueError", "Payment failed", c.ret.val.error)

\* create_order has failed inside its try block, after the order was created
FailedAfterShell ==
    /\ cur.op = "create"
    /\ Len(WorkflowCalls(cur.log)) > 1
    /\ StepFailed(WorkflowCalls(cur.log)[Len(WorkflowCalls(cur.log))])

\* C12: when create_order fails after the order was created, the exception it
\* raises is exactly the one that made it fail, also when releases of the
\* cleanup raise; the call never returns a result.
C12_OriginalErrorRaised ==
    FailedAfterShell =>
        /\ cur.pc \in {"release", "delete", "raised"}
        /\ cur.exc = TriggerOf(WorkflowCalls(cur.log)[Len(WorkflowCalls(cur.log))])
        /\ cur.result = None

\* a declined payment was raised after a release of the cleanup had failed
C12_Witness ==
    /\ FailedAfterShell
    /\ cur.pc = "raised"
    /\ cur.exc.msg = "Payment failed"
    /\ \E i \in 1..Len(cur.log) :
          cur.log[i].method = "release_reservation" /\ ~cur.log[i].ret.ok

----------------------------------------------------------------------------

\* the charge call of the running create_order has reported success
ChargeSucceeded ==
    /\ cur.op = "create"
    /\ CallsTo(cur.log, "charge") # << >>
    /\ LET charge == CallsTo(cur.log, "charge")[1]
       IN  charge.ret.ok /\ charge.ret.val.success

\* create_order has returned a newly created order
ReturnedCreated ==
    /\ cur.op = "create"
    /\ cur.pc = "returned"
    /\ cur.result.created

\* C13: create_order returns (order, True) exactly when the charge reported
\* success; the order it returns is then CONFIRMED and PAID and is the one in
\* the store; before a successful charge the order is PENDING and UNPAID, and
\* no stored order is CONFIRMED or PAID without a charge made for it.
C13_ConfirmedIffCharged ==
    /\ cur.op = "create" => (ReturnedCreated <=> ChargeSucceeded)
    /\ ReturnedCreated =>
          /\ cur.result.order.order_status = "CONFIRMED"
          /\ cur.result.order.payment_status = "PAID"
          /\ cur.result.order.order_id \in DOMAIN orders
          /\ orders[cur.result.order.order_id] = cur.result.order
    /\ (cur.op = "create" /\ cur.pc # "returned" /\ cur.order # None) =>
          /\ cur.order.order_status = "PENDING"
          /\ cur.order.payment_status = "UNPAID"
    /\ \A id \in DOMAIN orders :
          (orders[id].order_status = "CONFIRMED" \/ orders[id].payment_status = "PAID")
              => \E p \in payments : p.order_id = id

\* an order of two items has been charged at the real payment service
C13_Witness ==
    /\ ReturnedCreated
    /\ ChargeSucceeded
    /\ cur.last.real.called
    /\ cur.last.real.out.ok
    /\ Len(cur.items) = MaxItems

----------------------------------------------------------------------------

\* the charge call of the running create_order returned a non-success result
\* or raised
ChargeFailed ==
    /\ cur.op = "create"
    /\ CallsTo(cur.log, "charge") # << >>
    /\ StepFailed(CallsTo(cur.log, "charge")[1])

\* the order of the running create_order is not CONFIRMED and not PAID,
\* neither in the invocation nor in the store
NeverConfirmed ==
    /\ cur.order # None =>
          (cur.order.order_status = "PENDING" /\ cur.order.payment_status = "UNPAID")
    /\ cur.result = None
    /\ DOMAIN order_items = DOMAIN orders

\* C14: a charge that returns a non-success result and a charge that raises
\* both make create_order fail: the call raises, every reservation made for
\* the order is released, the order and its items are deleted, and the order
\* is never CONFIRMED or PAID.
C14_ChargeFailureUndone ==
    ChargeFailed =>
        /\ cur.pc \in {"release", "delete", "raised"}
        /\ NeverConfirmed
        /\ Len(cur.reservations) = Len(cur.items_data)
        /\ cur.pc = "raised" =>
              /\ NoOrderLeft
              /\ \A i \in 1..Len(cur.reservations) : cur.reservations[i] \notin HeldIds

\* what the code does give after a failed charge: the call raises, the order
\* is never confirmed, its rows are deleted and a release is asked for every
\* reservation
ChargeFailureCompensated ==
    ChargeFailed =>
        /\ cur.pc \in {"release", "delete", "raised"}
        /\ NeverConfirmed
        /\ Len(cur.reservations) = Len(cur.items_data)
        /\ cur.pc = "raised" => (NoOrderLeft /\ ReleasesIssued)

\* a declined charge and a raising charge, each after a real reservation
C14_Witness ==
    /\ ChargeFailed
    /\ cur.pc = "raised"
    /\ cur.exc.cls \in {"ValueError", "ServiceUnavailableError"}
    /\ \E i \in 1..Len(cur.reservations) : cur.reservations[i].impl = "real"

----------------------------------------------------------------------------

\* create_order is being called with a key that an order of the store carries
KnownKeyCall ==
    /\ cur.pc = "idle"
    /\ cur'.op = "create"
    /\ cur'.idempotency_key # NoKey
    /\ OrdersWithKey(cur'.idempotency_key) # {}

\* the call returns the stored order at once: no call to a service, nothing
\* written, the stored order as it was
ShortCircuited ==
    /\ cur'.pc = "returned"
    /\ ~cur'.result.created
    /\ \E id \in OrdersWithKey(cur'.idempotency_key) : cur'.result.order = orders[id]
    /\ cur'.log = << >>
    /\ cur'.order = None
    /\ UNCHANGED <<orders, order_items, realHeld, payments, refunds>>

\* C15: when create_order is called with an idempotency key for which an order
\* exists, it returns that order flagged not newly created before it changes
\* anything: no Customer, Catalog, Inventory or Payment call, nothing written
\* to the store, the existing order unchanged whatever its status.
C15_KnownKeyShortCircuits ==
    [][ KnownKeyCall => ShortCircuited ]_vars

\* what the code does give: the short-circuit for every key that is truthy
TruthyKeyShortCircuits ==
    [][ (KnownKeyCall /\ Truthy(cur'.idempotency_key)) => ShortCircuited ]_vars

\* a cancelled order has been returned for its key
C15_Witness ==
    /\ cur.op = "create"
    /\ cur.pc = "returned"
    /\ ~cur.result.created
    /\ cur.log = << >>
    /\ cur.result.order.order_status = "CANCELLED"
    /\ cur.result.order = orders[cur.result.order.order_id]

----------------------------------------------------------------------------
(* Two concurrent invocations of create_order with one idempotency key.     *)
(* Both make the idempotency check of lines 338-343 before either inserts;  *)
(* the insert of one invocation is seen by the other once it is committed,  *)
(* so the second invocation goes on after the first has ended.              *)

\* the keys the idempotency check looks up
TruthyKeys == { k \in Keys : Truthy(k) }

\* two requests with the same arguments arrive together: each makes its
\* idempotency check on the store as it is now
ConcurrentCreateOrder(customer_id, items_data, idempotency_key) ==
    /\ cur.pc = "idle"
    /\ other.pc = "idle"
    /\ \/ OrderIds \ DOMAIN orders # {}
       \/ \E id \in DOMAIN orders :
             /\ orders[id].idempotency_key = idempotency_key
             /\ items_data = Requested(order_items[id])
    /\ cur' = create_order_check(orders, customer_id, items_data, idempotency_key,
                                 DefaultShipping)
    /\ other' = create_order_check(orders, customer_id, items_data, idempotency_key,
                                   DefaultShipping)
    /\ UNCHANGED <<settings, orders, order_items, twin, realHeld, payments, refunds,
                   catalogUp>>

\* the suspended invocation goes on where it was
Resume ==
    /\ cur.pc = "idle"
    /\ other.pc # "idle"
    /\ cur' = other
    /\ other' = NoFrame
    /\ UNCHANGED <<settings, orders, order_items, twin, realHeld, payments, refunds,
                   catalogUp>>

NextRace ==
    \/ \E customer_id \in CustomerIds, items_data \in ItemLists,
          idempotency_key \in TruthyKeys :
          ConcurrentCreateOrder(customer_id, items_data, idempotency_key)
    \/ GetCustomer
    \/ GetProduct
    \/ ReserveStock
    \/ Charge
    \/ ReleaseReservation
    \/ DeleteOrder
    \/ Return
    \/ Resume

SpecRace == Init /\ [][NextRace]_vars

\* C16: when two create_order invocations run concurrently with one non-null
\* idempotency key, at most one order with that key is committed and the
\* invocation that loses the race returns the winner's order through the
\* short-circuit; it does not fail with a conflict on the key.
C16_RaceLoserShortCircuits ==
    /\ \A k \in TruthyKeys : Cardinality(OrdersWithKey(k)) <= 1
    /\ (cur.op = "create" /\ cur.pc = "raised") => cur.exc.cls # "IntegrityError"

\* the second of two concurrent invocations has ended while the order the
\* first one committed is in the store
C16_Witness ==
    /\ cur.op = "create"
    /\ cur.pc \in {"returned", "raised"}
    /\ other = NoFrame
    /\ Len(cur.log) > 0
    /\ OrdersWithKey(cur.idempotency_key) # {}
    /\ ~(cur.pc = "returned" /\ cur.result.created)

----------------------------------------------------------------------------

\* cancel_order goes on to its end once it has begun: its calls return or
\* raise within their timeout
FairSpec == Spec /\ WF_vars(CancelRelease) /\ WF_vars(CancelRefund)

\* cancel_order is at work on an order that was PENDING or CONFIRMED
CancelRunning ==
    /\ cur.op = "cancel"
    /\ cur.pc \in {"c_release", "c_refund"}
    /\ StoredOrder.order_status \in {"PENDING", "CONFIRMED"}

\* a release was asked for every item of the order that has a reservation, in
\* the order of the items
ItemReleasesAttempted ==
    LET held == SelectSeq(cur.items, LAMBDA item : item.reservation_id # None)
        rel == CallsTo(cur.log, "release_reservation")
    IN  /\ Len(rel) = Len(held)
        /\ \A i \in 1..Len(rel) : rel[i].args = <<held[i].reservation_id>>

\* cancel_order has returned and the order is stored as CANCELLED
CancelDone ==
    /\ cur.op = "cancel"
    /\ cur.pc = "returned"
    /\ StoredOrder.order_status = "CANCELLED"
    /\ cur.result.order = StoredOrder
    /\ ItemReleasesAttempted

\* C17: cancel_order on a PENDING or CONFIRMED order always ends with the
\* order stored as CANCELLED, after a release was attempted for every item
\* that has a reservation; a release that fails stops neither the remaining
\* releases nor the change to CANCELLED.
C17_CancelAlwaysCancels == CancelRunning ~> CancelDone

\* a two-item order was cancelled although the release of its first item failed
C17_Witness ==
    /\ CancelDone
    /\ Len(cur.items) = MaxItems
    /\ ~CallsTo(cur.log, "release_reservation")[1].ret.ok

----------------------------------------------------------------------------

\* cancel_order takes its last step on an order that was PENDING or CONFIRMED
CancelFinishing ==
    /\ cur.op = "cancel"
    /\ cur.pc = "c_refund"
    /\ cur'.pc = "returned"

\* the refund call did not raise and its result reports success
RefundSucceeded(call) == call.ret.ok /\ call.ret.val.success

\* C18: in cancel_order on a PENDING or CONFIRMED order a refund of the full
\* order_total is attempted exactly when payment_status is PAID;
\* payment_status becomes REFUNDED only when that refund succeeded, and when
\* the refund fails payment_status stays as it was and the order is still set
\* to CANCELLED.
C18_RefundedOnlyOnSuccess ==
    [][ CancelFinishing =>
          LET id == cur.order.order_id
              refund == CallsTo(cur'.log, "refund")
          IN  /\ (refund # << >>) <=> (orders[id].payment_status = "PAID")
              /\ orders'[id].order_status = "CANCELLED"
              /\ refund = << >> =>
                    orders'[id].payment_status = orders[id].payment_status
              /\ refund # << >> =>
                    /\ Len(refund) = 1
                    /\ refund[1].args[2] = orders[id].order_total
                    /\ orders'[id].payment_status =
                          IF RefundSucceeded(refund[1]) THEN "REFUNDED"
                          ELSE orders[id].payment_status ]_vars

\* what the code does give: REFUNDED exactly when the order was PAID and the
\* refund call did not raise, whatever its result says
RefundedWhenCallReturned ==
    [][ CancelFinishing =>
          LET id == cur.order.order_id
              refund == CallsTo(cur'.log, "refund")
          IN  /\ (refund # << >>) <=> (orders[id].payment_status = "PAID")
              /\ orders'[id].order_status = "CANCELLED"
              /\ orders'[id].payment_status =
                    IF refund # << >> /\ refund[1].ret.ok THEN "REFUNDED"
                    ELSE orders[id].payment_status ]_vars

\* a paid order was cancelled with a refund call made for its order_total
C18_Witness ==
    /\ cur.op = "cancel"
    /\ cur.pc = "returned"
    /\ CallsTo(cur.log, "refund") # << >>
    /\ cur.last.method = "refund"
    /\ cur.last.real.called
    /\ cur.last.args[2] = StoredOrder.order_total

----------------------------------------------------------------------------
(* A crash of the process inside create_order *)

\* the process dies between two steps of create_order, after a reservation
\* was made: the open transaction is rolled back by the database, the locals
\* are lost, and nothing more is sent to any service.  The frame keeps the
\* reservations the dead invocation had made, for reference only.
Crash ==
    /\ cur.op = "create"
    /\ cur.pc \in {"product", "reserve", "charge", "release", "delete"}
    /\ cur.reservations # << >>
    /\ cur' = [NoFrame EXCEPT !.pc = "crashed", !.op = "create",
                              !.reservations = cur.reservations]
    /\ twin' = NoFrame
    /\ catalogUp' = FALSE
    /\ UNCHANGED <<settings, other, orders, order_items, realHeld, payments, refunds>>

\* the process is started again; no code looks for what the crash left
Restart ==
    /\ cur.pc = "crashed"
    /\ cur' = NoFrame
    /\ UNCHANGED <<settings, other, orders, order_items, twin, realHeld, payments,
                   refunds, catalogUp>>

NextCrash == Next \/ Crash \/ Restart

SpecCrash == Init /\ [][NextCrash]_vars

\* C19: after a crash of create_order at any point following the first
\* successful reserve_stock, no order row of the invocation and no unreleased
\* reservation of the invocation remains.
C19_NothingLeftAfterCrash ==
    cur.pc = "crashed" =>
        /\ DOMAIN order_items = DOMAIN orders
        /\ \A id \in DOMAIN orders : orders[id].order_status # "PENDING"
        /\ \A i \in 1..Len(cur.reservations) : cur.reservations[i] \notin HeldIds

\* what the rollback does give: no order row of the crashed invocation
NoOrderRowAfterCrash ==
    cur.pc = "crashed" =>
        /\ DOMAIN order_items = DOMAIN orders
        /\ \A id \in DOMAIN orders : orders[id].order_status # "PENDING"

\* create_order has crashed after reserving at the real inventory service
C19_Witness ==
    /\ cur.pc = "crashed"
    /\ \E i \in 1..Len(cur.reservations) : cur.reservations[i].impl = "real"

----------------------------------------------------------------------------

\* the units of the items of a sequence
SumQuantities(items) ==
    LET RECURSIVE Sum(_)
        Sum(q) == IF q = << >> THEN 0 ELSE Head(q).quantity + Sum(Tail(q))
    IN  Sum(items)

\* the items of the running create_order whose reservation the mock inventory
\* granted at a warehouse; none of them has been released
MockGranted(product_id, warehouse) ==
    SelectSeq(cur.items, LAMBDA item :
        /\ item.reservation_id.impl = "mock"
        /\ item.product_id = product_id
        /\ item.warehouse = warehouse)

\* create_order holds the reservations of its items (the cleanup has not begun)
HoldingReservations ==
    /\ cur.op = "create"
    /\ cur.pc \in {"product", "reserve", "charge", "returned"}

\* C20: reservation is exclusive: the quantities of the successful, not yet
\* released reservations at a product/warehouse never sum to more than its
\* on_hand - reserved, at the mock inventory as at the networked one.
C20_ReservationsExclusive ==
    /\ HoldingReservations =>
          \A i \in 1..Len(MockINVENTORY) :
              SumQuantities(MockGranted(MockINVENTORY[i].product_id,
                                        MockINVENTORY[i].warehouse))
                  <= MockINVENTORY[i].on_hand - MockINVENTORY[i].reserved
    /\ \A i \in 1..Len(RealINVENTORY) :
          HeldQty(realHeld, RealINVENTORY[i].product_id)
              <= RealINVENTORY[i].on_hand - RealINVENTORY[i].reserved

\* two reservations of one create_order were granted by the mock inventory
C20_Witness ==
    /\ HoldingReservations
    /\ Len(cur.items) = MaxItems
    /\ \A i \in 1..Len(cur.items) : cur.items[i].reservation_id.impl = "mock"
    /\ cur.items[1].product_id = cur.items[MaxItems].product_id

----------------------------------------------------------------------------
(* PaymentService.charge called on its own, as a caller that repeats a     *)
(* request does                                                             *)

\* how many charges a run of SpecCharge makes
MaxCharges == 3

\* the amounts and keys of the charge requests
ChargeAmounts == {1999, 2998}
ChargeKeys == TruthyKeys \cup {"K2"}

\* one charge call through the PaymentService handle
PaymentCharge(order_id, amount, idempotency_key) ==
    /\ cur.pc = "idle"
    /\ Cardinality(payments) < MaxCharges
    /\ \E realOut \in RealPaymentService_charge(order_id, amount, idempotency_key,
                                                FreshPayment("real")),
          mockOut \in { Ok(MockPaymentService_charge(order_id, amount, idempotency_key,
                                                     FreshPayment("mock"))) } :
        LET call == Invoke(Services(settings).PaymentService, "charge",
                           <<order_id, amount, idempotency_key>>, realOut, mockOut)
        IN  /\ cur' = [NoFrame EXCEPT !.last = call]
            /\ payments' = PaymentsAfter(payments, call)
    /\ UNCHANGED <<settings, other, orders, order_items, twin, realHeld, refunds,
                   catalogUp>>

NextCharge ==
    \E order_id \in OrderIds, amount \in ChargeAmounts, idempotency_key \in ChargeKeys :
        PaymentCharge(order_id, amount, idempotency_key)

SpecCharge == Init /\ [][NextCharge]_vars

\* the charges MockPaymentService.charge has made
MockPayments == { p \in payments : p.payment_id.impl = "mock" }

\* C21: charge is idempotent on the idempotency key: repeated charge calls
\* with the same key and amount make one charge, the same payment, not a new
\* one per call.
C21_ChargeIdempotent ==
    \A p, q \in MockPayments :
        (p.idempotency_key = q.idempotency_key /\ p.amount = q.amount
                                               /\ p.order_id = q.order_id)
            => p.payment_id = q.payment_id

\* the mock has answered a second charge request with a key it has seen
C21_Witness ==
    /\ cur.last # None
    /\ cur.last.method = "charge"
    /\ cur.last.mock.called
    /\ \E p \in MockPayments :
          /\ p.payment_id # cur.last.mock.out.val.payment_id
          /\ p.idempotency_key = cur.last.args[3]
          /\ p.amount = cur.last.args[2]

----------------------------------------------------------------------------

\* quantity * unit_price summed over the items
ItemsTotal(items) ==
    LET RECURSIVE Sum(_)
        Sum(q) == IF q = << >> THEN 0
                  ELSE Head(q).quantity * Head(q).unit_price + Sum(Tail(q))
    IN  Sum(items)

\* the example: 2 at 10.00 and 1 at 5.00 with shipping 10.00, in cents
ExampleTotals ==
    calculate_totals(
        [shipping |-> 1000, subtotal |-> 0, tax |-> 0, order_total |-> 0],
        << calculate_line_total([quantity |-> 2, unit_price |-> 1000, line_total |-> 0]),
           calculate_line_total([quantity |-> 1, unit_price |-> 500, line_total |-> 0]) >>)

\* C22: for every created order order_total is the sum over its stored items
\* of quantity * unit_price, plus shipping, with tax zero (2 at 10.00 and 1 at
\* 5.00 with shipping 10.00 give 35.00), and this total is the amount passed
\* to the charge.
C22_TotalsAndChargeAmount ==
    /\ ExampleTotals.order_total = 3500
    /\ \A id \in DOMAIN orders :
          /\ orders[id].tax = 0
          /\ orders[id].subtotal = ItemsTotal(order_items[id])
          /\ orders[id].order_total = ItemsTotal(order_items[id]) + orders[id].shipping
    /\ ReturnedCreated =>
          /\ cur.result.order.order_total =
                ItemsTotal(cur.items) + cur.result.order.shipping
          /\ CallsTo(cur.log, "charge")[1].args[2] = cur.result.order.order_total

\* an order of two units of one product and the default shipping was charged
C22_Witness ==
    /\ ReturnedCreated
    /\ Len(cur.items) = 1
    /\ cur.items[1].quantity = 2
    /\ cur.result.order.order_total = 2 * cur.items[1].unit_price + DefaultShipping
    /\ cur.last.args[2] = cur.result.order.order_total

----------------------------------------------------------------------------

\* the releases asked so far are those of the first n recorded reservations
ReleasesSoFar(n) ==
    LET rel == CallsTo(cur.log, "release_reservation")
    IN  /\ Len(rel) = n
        /\ \A i \in 1..n : rel[i].args = <<cur.reservations[i]>>

\* the cleanup of create_order is where it should be: inside the release loop
\* and at the delete the order still exists; at the delete every release was
\* attempted; when the exception is raised the order is gone
CleanupInOrder ==
    FailedAfterShell =>
        /\ cur.pc = "release" => (cur.order # None /\ ReleasesSoFar(cur.idx - 1))
        /\ cur.pc = "delete" => (cur.order # None /\ ReleasesIssued)
        /\ cur.pc = "raised" => (cur.order = None /\ cur.items = << >> /\ ReleasesIssued)

\* the exception leaves create_order from the delete and from nowhere else
RaisedAfterDelete ==
    (cur.pc # "raised" /\ cur'.pc = "raised" /\ cur'.op = "create"
                       /\ Len(WorkflowCalls(cur'.log)) > 1)
        => (cur.pc = "delete" /\ cur.order # None /\ cur'.order = None)

\* C23: in the compensation of create_order a release is attempted for every
\* recorded reservation, also after earlier releases failed; the order and its
\* items are deleted only after all release attempts, the failure is raised
\* only after the delete, and the delete happens also when every release
\* failed.
C23_ReleaseDeleteRaise == []CleanupInOrder /\ [][RaisedAfterDelete]_vars

\* both releases of a two-item order failed and the order was deleted
C23_Witness ==
    /\ FailedAfterShell
    /\ cur.pc = "raised"
    /\ cur.order = None
    /\ Len(cur.reservations) = MaxItems
    /\ \A i \in 1..MaxItems : ~CallsTo(cur.log, "release_reservation")[i].ret.ok

----------------------------------------------------------------------------

\* the calls of the item loop, in the order they were made
LoopCalls == SelectSeq(cur.log, LAMBDA c : c.method \in {"get_product", "reserve_stock"})

\* a reserve_stock call that granted a reservation
Granted(c) == c.method = "reserve_stock" /\ c.ret.ok /\ c.ret.val.success

\* the j-th call of the item loop is the lookup (j odd) or the reservation
\* (j even) of item (j + 1) \div 2, and every call before the last one went
\* well: nothing of a later item starts before the earlier item is through
LoopSequential ==
    /\ Len(LoopCalls) <= 2 * Len(cur.items_data)
    /\ \A j \in 1..Len(LoopCalls) :
          LET c == LoopCalls[j]
              item_data == cur.items_data[(j + 1) \div 2]
          IN  /\ IF j % 2 = 1
                 THEN c.method = "get_product" /\ c.args = <<item_data.product_id>>
                 ELSE /\ c.method = "reserve_stock"
                      /\ c.args[1] = item_data.product_id
                      /\ c.args[3] = item_data.quantity
              /\ j < Len(LoopCalls) => ~StepFailed(c)

\* the recorded reservations are those granted to the first items, in the
\* order of the items
ReservationsArePrefix ==
    /\ Len(cur.reservations) <= Len(cur.items_data)
    /\ Len(cur.reservations) = Cardinality({ j \in 1..Len(LoopCalls) : Granted(LoopCalls[j]) })
    /\ \A i \in 1..Len(cur.reservations) :
          /\ Granted(LoopCalls[2 * i])
          /\ LoopCalls[2 * i].ret.val.reservation_id = cur.reservations[i]
    /\ cur.order # None =>
          /\ Len(cur.items) = Len(cur.reservations)
          /\ \A i \in 1..Len(cur.items) :
                /\ cur.items[i].product_id = cur.items_data[i].product_id
                /\ cur.items[i].quantity = cur.items_data[i].quantity
                /\ cur.items[i].reservation_id = cur.reservations[i]

\* C24: create_order processes the items strictly one after the other in the
\* submitted order: the recorded reservations are always those of a prefix of
\* the submitted items, and a failure at item k leaves no reservation of an
\* item after k.
C24_ItemsSequential ==
    cur.op = "create" =>
        /\ LoopSequential
        /\ ReservationsArePrefix
        /\ ItemStepFailed =>
              /\ Len(cur.reservations) = FailedItem - 1
              /\ Len(LoopCalls) \in {2 * FailedItem - 1, 2 * FailedItem}

\* the second of two items failed after the first was reserved
C24_Witness ==
    /\ ItemStepFailed
    /\ Len(cur.items_data) = MaxItems
    /\ FailedItem = MaxItems
    /\ Len(cur.reservations) = MaxItems - 1
    /\ Granted(LoopCalls[2])

\* both items of a two-item order are reserved, with different reservations
TwoItemsReserved ==
    /\ cur.op = "create"
    /\ Len(cur.reservations) = MaxItems
    /\ cur.reservations[1] # cur.reservations[MaxItems]

----------------------------------------------------------------------------

\* the charge of the invocation: at most one, made when every submitted item
\* is reserved and has its row, for the recomputed order total, and never
\* after a failed step of the item loop
ChargeOnceAfterItems ==
    LET charges == CallsTo(cur.log, "charge")
    IN  /\ Len(charges) <= 1
        /\ (\E j \in 1..Len(LoopCalls) : StepFailed(LoopCalls[j])) => charges = << >>
        /\ charges # << >> =>
              /\ Len(cur.reservations) = Len(cur.items_data)
              /\ Len(LoopCalls) = 2 * Len(cur.items_data)
              /\ WorkflowCalls(cur.log)[Len(WorkflowCalls(cur.log))].method = "charge"
              /\ cur.order # None =>
                    /\ Len(cur.items) = Len(cur.items_data)
                    /\ cur.order.order_total = SumLineTotals(cur.items) + cur.shipping
                    /\ charges[1].args[2] = cur.order.order_total

\* the key the charge is made with, for the callers' keys in S: the caller's
\* key when the caller gave one, a fresh one when the caller gave none
ChargeKeyIsCallers(S) ==
    \A c \in { CallsTo(cur.log, "charge")[i] : i \in 1..Len(CallsTo(cur.log, "charge")) } :
        cur.idempotency_key \in S =>
            c.args[3] = IF cur.idempotency_key = NoKey THEN FreshKey
                        ELSE cur.idempotency_key

\* C25: in every create_order run the payment charge is made at most once,
\* only after every submitted item is reserved and persisted and the total
\* recomputed, for order_total, with the caller's idempotency key when one was
\* given and a fresh key otherwise; a run that failed in the item loop makes
\* no charge.
C25_ChargeOnceWithCallersKey ==
    cur.op = "create" => (ChargeOnceAfterItems /\ ChargeKeyIsCallers(Keys))

\* what holds of the charge: everything but the key of a caller who gave ''
ChargeOnceWithTruthyKey ==
    cur.op = "create" => (ChargeOnceAfterItems /\ ChargeKeyIsCallers(Keys \ {""}))

\* a charge was made for a caller who gave the key ''
C25_Witness ==
    /\ cur.op = "create"
    /\ cur.idempotency_key = ""
    /\ CallsTo(cur.log, "charge") # << >>
    /\ CallsTo(cur.log, "charge")[1].args[3] = FreshKey

----------------------------------------------------------------------------

\* the customer service answered that there is no such customer
CustomerAbsent ==
    /\ cur.op = "create"
    /\ cur.log # << >>
    /\ cur.log[1].method = "get_customer"
    /\ cur.log[1].ret.ok
    /\ cur.log[1].ret.val = None

\* after that answer the invocation has raised "Customer not found", holds no
\* order, item or reservation, and the lookup is the only call it made
AbsentCustomerRaised ==
    CustomerAbsent =>
        /\ cur.pc = "raised"
        /\ cur.exc = Err("ValueError", "Customer not found", "")
        /\ cur.order = None
        /\ cur.items = << >>
        /\ cur.reservations = << >>
        /\ Len(cur.log) = 1

\* neither the answer nor the return after it writes anything
AbsentCustomerWritesNothing ==
    (CustomerAbsent \/ CustomerAbsent') =>
        /\ orders' = orders
        /\ order_items' = order_items
        /\ realHeld' = realHeld
        /\ payments' = payments
        /\ refunds' = refunds

\* C26: when the customer service reports the customer absent, create_order
\* fails with the customer-not-found error and nothing has happened: no order
\* row was created and no catalog, inventory or payment call was made.
C26_AbsentCustomerNoEffect == []AbsentCustomerRaised /\ [][AbsentCustomerWritesNothing]_vars

\* the customer was reported absent, with the real services switched on and
\* the answer coming from the fallback
C26_Witness ==
    /\ CustomerAbsent
    /\ cur.pc = "raised"
    /\ cur.customer_id \notin DOMAIN MockCUSTOMERS
    /\ cur.last.real.called
    /\ cur.last.mock.called

----------------------------------------------------------------------------

\* a step keeps every CANCELLED order CANCELLED and every DELIVERED order
\* DELIVERED, and removes neither
TerminalStatusKept ==
    \A id \in DOMAIN orders :
        orders[id].order_status \in {"CANCELLED", "DELIVERED"} =>
            /\ id \in DOMAIN orders'
            /\ orders'[id].order_status = orders[id].order_status

\* C27: over any sequence of create_order calls (replays with the key of an
\* already cancelled order included) and cancel_order calls, an order that
\* has reached CANCELLED never later is CONFIRMED or DELIVERED, and an order
\* that is DELIVERED never becomes CANCELLED.
C27_TerminalStatuses == [][TerminalStatusKept]_vars

\* create_order was replayed with the key of an order that was cancelled and
\* refunded, and returned that order as it is
C27_Witness ==
    /\ cur.op = "create"
    /\ cur.pc = "returned"
    /\ cur.idempotency_key = "K1"
    /\ ~cur.result.created
    /\ cur.result.order.order_status = "CANCELLED"
    /\ cur.result.order.payment_status = "REFUNDED"
    /\ orders[cur.result.order.order_id].order_status = "CANCELLED"

----------------------------------------------------------------------------

\* the step makes a call through a service handle
CallMade == Len(cur'.log) = Len(cur.log) + 1

\* one call: each implementation is invoked once at most, and the mock, when
\* the real services are in use, only after the real one failed in this call
CalledOnceInOrder(c) ==
    /\ c.real.times <= 1
    /\ c.mock.times <= 1
    /\ settings.USE_REAL_SERVICES =>
          /\ c.real.called
          /\ c.mock.called => ~c.real.out.ok
          /\ c.real.out.ok => c.ret = c.real.out

\* every call is made this way, the call after one that fell back included
NoRetryNoMemory ==
    CallMade =>
        /\ CalledOnceInOrder(cur'.last)
        /\ FellBack => cur'.last.real.called

\* C28: the wrapper neither retries nor remembers a fallback: within one call
\* the real service is invoked at most once and the mock at most once, the
\* mock only after the real service failed in that same call, and the call
\* after one that fell back again invokes the real service first.
C28_NoRetryNoMemory == [][NoRetryNoMemory]_vars

\* the reservation came from the mock after the real inventory failed, and the
\* charge that followed was answered by the real payment service alone
C28_Witness ==
    /\ settings.USE_REAL_SERVICES
    /\ cur.op = "create"
    /\ cur.reservations # << >>
    /\ \A i \in 1..Len(cur.reservations) : cur.reservations[i].impl = "mock"
    /\ cur.last # None
    /\ cur.last.method = "charge"
    /\ cur.last.real.called
    /\ cur.last.real.times = 1
    /\ cur.last.real.out.ok
    /\ ~cur.last.mock.called

----------------------------------------------------------------------------

\* order row b is order row a but for order_status and payment_status
SameButStatuses(a, b) ==
    [b EXCEPT !.order_status = a.order_status, !.payment_status = a.payment_status] = a

\* a step of cancel_order keeps every Order and OrderItem row, writes nothing
\* of an order but its two statuses, and nothing of an item, in the store and
\* in the objects it holds
CancelFrame ==
    (cur.op = "cancel" \/ cur'.op = "cancel") =>
        /\ order_items' = order_items
        /\ DOMAIN orders' = DOMAIN orders
        /\ \A id \in DOMAIN orders : SameButStatuses(orders[id], orders'[id])
        /\ cur'.op = "cancel" =>
              /\ cur'.items = order_items[cur'.order.order_id]
              /\ SameButStatuses(orders[cur'.order.order_id], cur'.order)

\* C29: cancel_order changes only order_status and payment_status of the
\* order: it deletes no Order or OrderItem row and leaves every item, its
\* reservation_id included, the totals, the customer snapshot and the
\* idempotency key as they were.
C29_CancelChangesStatusesOnly == [][CancelFrame]_vars

\* a paid two-item order was cancelled: it is CANCELLED in the store, with its
\* total, its key and both items with their reservations
C29_Witness ==
    /\ cur.op = "cancel"
    /\ cur.pc = "returned"
    /\ CallsTo(cur.log, "refund") # << >>
    /\ StoredOrder.order_status = "CANCELLED"
    /\ StoredOrder.order_total > 0
    /\ StoredOrder.idempotency_key = "K1"
    /\ Len(order_items[cur.order.order_id]) = MaxItems
    /\ \A i \in 1..MaxItems : order_items[cur.order.order_id][i].reservation_id # None

----------------------------------------------------------------------------

\* the payment identifiers the payment service returned for charges of order_id
ChargedIds(order_id) == { p.payment_id : p \in { q \in payments : q.order_id = order_id } }

\* the refund calls of the invocation
RefundCalls == { CallsTo(cur.log, "refund")[i] : i \in 1..Len(CallsTo(cur.log, "refund")) }

\* C30: when cancel_order refunds a PAID order, the payment identifier it
\* passes to the refund is the one the charge returned for that order in
\* create_order.
C30_RefundsTheChargedPayment ==
    cur.op = "cancel" =>
        \A c \in RefundCalls : c.args[1] \in ChargedIds(cur.order.order_id)

\* cancel_order asked for the refund of an order whose charge returned a
\* payment identifier
C30_Witness ==
    /\ cur.op = "cancel"
    /\ RefundCalls # {}
    /\ ChargedIds(cur.order.order_id) # {}
    /\ \A c \in RefundCalls : c.args[1] = PayRef(cur.order.order_id)

----------------------------------------------------------------------------
\* Two cancel_order invocations on the same order.  Each caller holds its own
\* Order object, read from the store before either invocation has saved;
\* cancel_order takes no lock on the row, so the steps of the two interleave.
\* `cur` and `other` are the two invocations.

ConcurrentCancelOrder(order_id) ==
    /\ cur.pc = "idle"
    /\ other.pc = "idle"
    /\ order_id \in DOMAIN orders
    /\ cur' = cancel_order_check(orders[order_id], order_items[order_id])
    /\ other' = cancel_order_check(orders[order_id], order_items[order_id])
    /\ UNCHANGED <<settings, orders, order_items, twin, realHeld, payments, refunds,
                   catalogUp>>

\* the release loop of the second invocation
OtherCancelRelease ==
    /\ other.pc = "c_release"
    /\ LET reservation_id == other.items[other.idx].reservation_id IN
       \E realOut \in RealInventoryService_release_reservation(reservation_id),
          mockOut \in { Ok(MockInventoryService_release_reservation(reservation_id)) } :
        other' = cancel_order_release(other, Services(settings), realOut, mockOut)
    /\ realHeld' = IF Len(other'.log) > Len(other.log)
                   THEN HeldAfter(realHeld, LastCall(other')) ELSE realHeld
    /\ UNCHANGED <<settings, cur, orders, order_items, twin, payments, refunds, catalogUp>>

\* the refund and order.save() of the second invocation
OtherCancelRefund ==
    /\ other.pc = "c_refund"
    /\ LET a == RefundArgs(other) IN
       \E realOut \in RealPaymentService_refund(a[1], a[2], FreshRefund("real")),
          mockOut \in { Ok(MockPaymentService_refund(a[1], a[2], FreshRefund("mock"))) } :
        other' = cancel_order_refund(other, Services(settings), realOut, mockOut)
    /\ refunds' = IF Len(other'.log) > Len(other.log)
                  THEN RefundsAfter(refunds, LastCall(other')) ELSE refunds
    /\ orders' = [orders EXCEPT ![other'.order.order_id] = other'.order]
    /\ UNCHANGED <<settings, cur, order_items, twin, realHeld, payments, catalogUp>>

\* an invocation that runs alone returns
ReturnAlone == other.pc = "idle" /\ Return

\* both callers have their result
ReturnBoth ==
    /\ cur.pc \in {"returned", "raised"}
    /\ other.pc \in {"returned", "raised"}
    /\ cur' = NoFrame
    /\ other' = NoFrame
    /\ UNCHANGED <<settings, orders, order_items, twin, realHeld, payments, refunds,
                   catalogUp>>

NextCancelRace ==
    \/ \E customer_id \in CustomerIds, items_data \in ItemLists,
          idempotency_key \in TruthyKeys :
          CreateOrder(customer_id, items_data, idempotency_key)
    \/ GetCustomer
    \/ GetProduct
    \/ ReserveStock
    \/ Charge
    \/ ReleaseReservation
    \/ DeleteOrder
    \/ ReturnAlone
    \/ \E order_id \in OrderIds : ConcurrentCancelOrder(order_id)
    \/ CancelRelease
    \/ CancelRefund
    \/ OtherCancelRelease
    \/ OtherCancelRefund
    \/ ReturnBoth

SpecCancelRace == Init /\ [][NextCancelRace]_vars

\* the calls to method_name that the two invocations made with the first
\* argument a and that returned
DoneBy(f, method_name, a) ==
    { i \in 1..Len(f.log) : /\ f.log[i].method = method_name
                            /\ f.log[i].args[1] = a
                            /\ f.log[i].ret.ok }

DoneByBoth(method_name, a) ==
    Cardinality(DoneBy(cur, method_name, a)) + Cardinality(DoneBy(other, method_name, a))

\* C31: when two cancel_order invocations run concurrently on the same
\* CONFIRMED and PAID order, at most one refund is issued for the order and
\* each item's reservation is released at most once.
C31_ConcurrentCancelOnce ==
    (cur.op = "cancel" /\ other.op = "cancel") =>
        /\ DoneByBoth("refund", PayRef(cur.order.order_id)) <= 1
        /\ \A i \in 1..Len(cur.items) :
              DoneByBoth("release_reservation", cur.items[i].reservation_id) <= 1

\* both invocations have returned, each after a refund and a release of the
\* same reservation
C31_Witness ==
    /\ cur.op = "cancel" /\ other.op = "cancel"
    /\ cur.pc = "returned" /\ other.pc = "returned"
    /\ DoneByBoth("refund", PayRef(cur.order.order_id)) = 2
    /\ DoneByBoth("release_reservation", cur.items[1].reservation_id) = 2
    /\ orders[cur.order.order_id].order_status = "CANCELLED"

----------------------------------------------------------------------------

\* the last call was a release of a reservation, in the compensation of
\* create_order or in cancel_order
ReleaseCalled ==
    /\ cur.last # None
    /\ cur.last.method = "release_reservation"

\* C32: every reservation that the compensation of create_order or
\* cancel_order releases is released on the implementation, real or mock,
\* whose reserve_stock granted it: a reservation granted by the mock is never
\* sent for release to the real service, nor the reverse.
C32_ReleasedWhereGranted ==
    ReleaseCalled =>
        /\ cur.last.real.called => cur.last.real.args[1].impl = "real"
        /\ cur.last.mock.called => cur.last.mock.args[1].impl = "mock"

\* a reservation granted by the mock, after the real inventory had failed,
\* was sent for release to the real inventory service, which took it
C32_Witness ==
    /\ ReleaseCalled
    /\ settings.USE_REAL_SERVICES
    /\ cur.last.args[1].impl = "mock"
    /\ cur.last.real.called
    /\ cur.last.real.out.ok
    /\ ~cur.last.mock.called

\* what holds when the real services are switched off: the mock grants and
\* the mock releases
MockReleasesItsOwn ==
    (ReleaseCalled /\ ~settings.USE_REAL_SERVICES) =>
        /\ ~cur.last.real.called
        /\ cur.last.mock.args[1].impl = "mock"

----------------------------------------------------------------------------
\* create_order with a store whose write after the charge can fail: the
\* order.save() that follows a successful charge is inside the try block, so
\* its exception is caught like any other and the compensation runs.

\* the charge succeeds and the order.save() after it raises
create_order_charge_save_raises(f, S, realOut, mockOut) ==
    LET order == calculate_totals(f.order, f.items)
        call == Invoke(S.PaymentService, "charge", ChargeArgs(f), realOut, mockOut)
        g == [Logged(f, call) EXCEPT !.order = order]
    IN  Caught(g, Err("DatabaseError", "save failed", ""))

ChargeSaveRaises ==
    /\ cur.pc = "charge"
    /\ Cardinality(payments) < MaxCharges
    /\ LET a == ChargeArgs(cur) IN
       \E realOut \in RealPaymentService_charge(a[1], a[2], a[3], FreshPayment("real")),
          mockOut \in { Ok(MockPaymentService_charge(a[1], a[2], a[3],
                                                     FreshPayment("mock"))) } :
        /\ cur' = create_order_charge_save_raises(cur, Services(settings), realOut, mockOut)
        /\ cur'.last.ret.ok
        /\ cur'.last.ret.val.success
        /\ twin' = TwinStep(create_order_charge_save_raises(twin, ServicesMockCatalog(settings),
                                                            realOut, mockOut))
    /\ payments' = PaymentsAfter(payments, LastCall(cur'))
    /\ UNCHANGED <<settings, other, orders, order_items, realHeld, refunds, catalogUp>>

\* create_order is invoked as long as no invocation has charged
CreateOrderUncharged(customer_id, items_data, idempotency_key) ==
    /\ payments = {}
    /\ CreateOrder(customer_id, items_data, idempotency_key)

NextSaveFails ==
    \/ \E customer_id \in CustomerIds, items_data \in ItemLists, idempotency_key \in Keys :
          CreateOrderUncharged(customer_id, items_data, idempotency_key)
    \/ GetCustomer
    \/ GetProduct
    \/ ReserveStock
    \/ Charge
    \/ ChargeSaveRaises
    \/ ReleaseReservation
    \/ DeleteOrder
    \/ Return

SpecSaveFails == Init /\ [][NextSaveFails]_vars

\* the positions in the log of the charges that succeeded
ChargedAt == { i \in 1..Len(cur.log) : /\ cur.log[i].method = "charge"
                                       /\ cur.log[i].ret.ok
                                       /\ cur.log[i].ret.val.success }

\* the charge at position i of the log was refunded later in the invocation
RefundedAfter(i) ==
    \E j \in (i + 1)..Len(cur.log) : cur.log[j].method = "refund" /\ cur.log[j].ret.ok

\* C33: whenever create_order ends with an error, no successful charge for
\* the order remains at the payment service, whatever the point of failure,
\* a failure of the write that follows a successful charge included: a charge
\* that succeeded is never left in place without a persisted order.
C33_NoChargeLeftAfterError ==
    (cur.op = "create" /\ cur.pc = "raised") =>
        \A i \in ChargedAt : RefundedAfter(i)

\* create_order raised the error of the save after a charge that succeeded
\* at the real payment service; the order is gone and the payment is on record
C33_Witness ==
    /\ cur.op = "create"
    /\ cur.pc = "raised"
    /\ cur.exc.cls = "DatabaseError"
    /\ cur.order = None
    /\ ChargedAt # {}
    /\ \E p \in payments : p.payment_id.impl = "real" /\ p.order_id \notin DOMAIN orders

----------------------------------------------------------------------------

\* C34: in every committed state of the store that create_order and
\* cancel_order calls can lead to, an order that is CONFIRMED is PAID, an
\* order that is REFUNDED is CANCELLED, and no order is PENDING.
C34_StoreStatuses ==
    \A id \in DOMAIN orders :
        /\ orders[id].order_status = "CONFIRMED" => orders[id].payment_status = "PAID"
        /\ orders[id].payment_status = "REFUNDED" => orders[id].order_status = "CANCELLED"
        /\ orders[id].order_status # "PENDING"

\* between two invocations the store holds an order that was confirmed and
\* paid and has since been cancelled and refunded
C34_Witness ==
    /\ cur.pc = "idle"
    /\ \E id \in DOMAIN orders :
          /\ orders[id].order_status = "CANCELLED"
          /\ orders[id].payment_status = "REFUNDED"
          /\ \E p \in payments : p.order_id = id
          /\ \E r \in refunds : r.payment_id = PayRef(id)

====
